---------------------------- MODULE Spec2Model ----------------------------
(***************************************************************************)
(* A model of the Trigg and Peach proof-of-work algorithms of              *)
(* src/src/trigg.c and src/src/peach.c.                                    *)
(*                                                                         *)
(* Bytes are integers 0..255.  A byte buffer is a sequence of bytes; the   *)
(* C offset k of a buffer is element k+1 of its sequence.  A 32-bit        *)
(* unsigned integer is a pair <<hi, lo>> of 16-bit halves, since the       *)
(* integers of the model checker are narrower than 2^32.                   *)
(***************************************************************************)
EXTENDS Integers, Sequences, FiniteSets, TLC

VARIABLES
  Trigg_seed,   \* trigg.c: static volatile uint32_t Trigg_seed
  bt,           \* the caller's BTRAILER, BTSIZE bytes
  P,            \* the caller's PEACH_ALGO context
  pstate,       \* lifecycle of P: "uninit", "ready", "failed", "freed"
  heap,         \* the blocks handed out by malloc(), in order
  T,            \* the caller's TRIGG_ALGO context
  tstate,       \* lifecycle of T: "uninit", "ready"
  call,         \* the last call made: its name, arguments and results
  emit,         \* the last nonce a *_generate call emitted, with its hashes
  ngen,         \* number of *_generate calls made so far
  arg,          \* the input of the pure function under test
  ret,          \* the result of the pure function under test
  build,        \* peach.c: "static" if STATIC_PEACH_MAP is defined, else "heap"
  W,            \* the workers: each one's PEACH_ALGO context and trailer
  Trigg_rand_mutex, \* trigg.c: the thread holding the mutex, 0 if none
  thr,          \* the threads calling trigg_rand and trigg_srand
  hist          \* the seed last set by trigg_srand and the updates since

vars == <<Trigg_seed, bt, P, pstate, heap, T, tstate, call, emit, ngen, arg, ret,
          build, W, Trigg_rand_mutex, thr, hist>>

(* the state of the workers and of the threads *)
others == <<build, W, Trigg_rand_mutex, thr, hist>>

-----------------------------------------------------------------------------
(* Program constants.                                                      *)

HASHLEN == 32
BTSIZE == 160
HAIKUSIZE == 256
MAXDICT == 256
MAXH == 16
NFRAMES == 10
F_XLIT == 131072
PEACH_RNDS == 8
PEACH_JUMP == 8
PEACH_ROW == 32

(* Offsets of the BTRAILER fields (C offsets, 0-based). *)
OFF_PHASH == 0
OFF_BNUM == 32
OFF_DIFFICULTY == 56
OFF_MROOT == 60
OFF_NONCE == 92
OFF_STIME == 124

-----------------------------------------------------------------------------
(* Bounds of the model.                                                    *)

(* log2 of the number of tiles of the map (20 in peach.c). *)
MapBits == 3
(* rows of HASHLEN bytes in one tile (32 in peach.c). *)
TileRows == 2
(* *_generate calls explored per behaviour. *)
MaxGen == 2
(* blocks malloc() hands out per behaviour. *)
MaxBlocks == 2
NThreads == 2
MaxCalls == 2
MaxChecks == 2
MaxLen == 9
MaxSeeds == 40

-----------------------------------------------------------------------------
(* Integer and bit arithmetic.                                             *)

RECURSIVE Pow2(_)
Pow2(n) == IF n = 0 THEN 1 ELSE 2 * Pow2(n - 1)

(* a & b for non-negative a, b *)
RECURSIVE BitAnd(_, _)
BitAnd(a, b) ==
  IF a = 0 \/ b = 0 THEN 0
  ELSE (a % 2) * (b % 2) + 2 * BitAnd(a \div 2, b \div 2)

(* a ^ b for non-negative a, b *)
RECURSIVE BitXor(_, _)
BitXor(a, b) ==
  IF a = 0 THEN b
  ELSE IF b = 0 THEN a
  ELSE ((a + b) % 2) + 2 * BitXor(a \div 2, b \div 2)

(* a >> n *)
Shr(a, n) == a \div Pow2(n)

U32(hi, lo) == <<hi, lo>>
Hi(v) == v[1]
Lo(v) == v[2]

(* a uint32_t from, and as, an integer below 2^31 *)
ToU32(n) == U32(n \div 65536, n % 65536)
ToInt(v) == Hi(v) * 65536 + Lo(v)

(* the uint32_t product v * k, for a multiplier k < 2^15 *)
Mul32(v, k) ==
  LET l == Lo(v) * k
  IN  U32((Hi(v) * k + l \div 65536) % 65536, l % 65536)

(* the uint32_t sum a + b *)
Add32(a, b) ==
  LET l == Lo(a) + Lo(b)
  IN  U32((Hi(a) + Hi(b) + l \div 65536) % 65536, l % 65536)

And32(a, b) == U32(BitAnd(Hi(a), Hi(b)), BitAnd(Lo(a), Lo(b)))

(* a little-endian uint32_t read from 4 bytes of buffer b at C offset o *)
LoadLE32(b, o) == U32(b[o + 3] + 256 * b[o + 4], b[o + 1] + 256 * b[o + 2])

(* the 4 bytes of a uint32_t in memory (little-endian) *)
StoreLE32(v) == <<Lo(v) % 256, Lo(v) \div 256, Hi(v) % 256, Hi(v) \div 256>>

(* the sequence s, with every element evaluated *)
Force(s) == SubSeq(s, 1, Len(s))

(* bytes [o, o+n) of buffer b (C offsets) *)
Bytes(b, o, n) == SubSeq(b, o + 1, o + n)

(* buffer b with bytes [o, o+Len(s)) replaced by s *)
Poke(b, o, s) ==
  Force([i \in 1..Len(b) |->
           IF i > o /\ i <= o + Len(s) THEN s[i - o] ELSE b[i]])

Zeros(n) == Force([i \in 1..n |-> 0])

-----------------------------------------------------------------------------
(* The pseudo random number generator embedded in trigg.c.                 *)

(* a generator with an even increment: Trigg_seed * 69069 + 262144 *)
trigg_rand_step_even(s) ==
  LET l == Lo(s) * 3533 + 262144
  IN  U32((Lo(s) + Hi(s) * 3533 + l \div 65536) % 65536, l % 65536)

(* Trigg_seed * 69069 + 262145 (mod 2^32), with 69069 = 65536 + 3533 *)
trigg_rand_step(s) ==
  LET l == Lo(s) * 3533 + 262145
  IN  U32((Lo(s) + Hi(s) * 3533 + l \div 65536) % 65536, l % 65536)

(* trigg_rand(): the new seed and the value returned, r = Trigg_seed >> 16 *)
trigg_rand(s) ==
  LET n == trigg_rand_step(s)
  IN  [seed |-> n, r |-> Hi(n)]

(* mutex_lock(&m) for thread t, of ../util/thread.c: the call returns     *)
(* (ok) only while no thread holds m, which t then holds                   *)
mutex_lock(m, t) == [ok |-> m = 0, m |-> t]

(* mutex_unlock(&m): no thread holds m *)
mutex_unlock(m) == 0

(* trigg_rand_lock() of a build with EXCLUDE_THREADSAFE: do nothing *)
trigg_rand_lock_nothing(m, t) == [ok |-> TRUE, m |-> m]

(* trigg_rand_lock() and trigg_rand_unlock() of the thread-safe build *)
trigg_rand_lock(m, t) == mutex_lock(m, t)
trigg_rand_unlock(m) == mutex_unlock(m)

(* the seed n calls of trigg_rand after the seed s *)
RECURSIVE trigg_rand_iter(_, _)
trigg_rand_iter(s, n) ==
  IF n = 0 THEN s ELSE trigg_rand(trigg_rand_iter(s, n - 1)).seed

-----------------------------------------------------------------------------
(* The semantic grammar: dictionary and case frames.                       *)

(* Dict[].fe: the semantic features of the 256 dictionary words, in index order *)
DictFe ==
  << 0, 16384, 16384, 16384, 16384, 16384, 16384, 16384, 16384, 16384, 16384, 16384, 4096, 4096, 4096, 4096,
     4096, 4096, 5, 5, 5, 5, 5, 5, 5, 5, 5, 5, 5, 5, 5, 5,
     5, 5, 5, 5, 5, 5, 5, 1, 1, 1, 1, 1, 6, 6, 6, 6,
     2, 2, 2, 2, 2, 2, 2, 2, 2, 2, 2, 2, 2, 8192, 8192, 8192,
     8192, 8192, 8192, 8192, 8192, 8192, 8192, 8192, 8192, 8192, 8192, 8192, 8192, 8256, 8192, 8192,
     8192, 8192, 8320, 8320, 8320, 8448, 8448, 8448, 8448, 8192, 8192, 8192, 8192, 8192, 8256, 8256,
     8256, 8192, 8192, 8192, 8192, 8192, 8192, 8192, 8192, 8192, 8192, 8192, 8192, 8192, 8192, 8192,
     8192, 8192, 8192, 8192, 8192, 8192, 8192, 8192, 8192, 8192, 8192, 8192, 8192, 8192, 8256, 8192,
     8192, 8, 8, 8, 8, 8, 8, 8, 8, 8, 8, 16, 16, 16, 16, 16,
     16, 8, 16, 16, 16, 8, 16, 16, 16, 16, 8, 8, 8, 8, 16, 2576,
     16, 16, 16, 16, 16, 16, 16, 528, 528, 16, 16, 16, 16, 16, 16, 16,
     16, 1544, 3592, 3592, 2056, 2064, 8, 8, 8, 8, 1544, 520, 2568, 2568, 2568, 3592,
     3592, 3592, 1544, 8, 3080, 3080, 520, 1032, 2056, 2056, 2056, 2056, 2568, 2056, 2056, 2056,
     2568, 8, 8, 8, 8, 8, 3168, 3168, 3168, 2144, 2144, 3168, 3168, 3104, 2144, 2144,
     2144, 2144, 2144, 2144, 2656, 3104, 3104, 32, 32, 32, 32, 2080, 2144, 2144, 2144, 2144,
     2144, 1032, 32, 128, 8, 8, 8, 8, 8, 136, 136, 136, 136, 136, 264, 136 >>

(* Dict[].tok: the word tokens as byte strings (without the terminating NUL) *)
DictTok ==
  << <<78,73,76>>, <<10>>, <<8,58>>, <<8,45,45>>, <<108,105,107,101>>, <<97>>,
     <<116,104,101>>, <<111,102>>, <<110,111>>, <<8,115>>, <<97,102,116,101,114>>,
     <<98,101,102,111,114,101>>, <<97,116>>, <<105,110>>, <<111,110>>,
     <<117,110,100,101,114>>, <<97,98,111,118,101>>, <<98,101,108,111,119>>,
     <<97,114,114,105,118,105,110,103>>, <<100,101,112,97,114,116,105,110,103>>,
     <<103,111,105,110,103>>, <<99,111,109,105,110,103>>,
     <<99,114,101,101,112,105,110,103>>, <<100,97,110,99,105,110,103>>,
     <<114,105,100,105,110,103>>, <<115,116,114,117,116,116,105,110,103>>,
     <<108,101,97,112,105,110,103>>, <<108,101,97,118,105,110,103>>,
     <<101,110,116,101,114,105,110,103>>, <<100,114,105,102,116,105,110,103>>,
     <<114,101,116,117,114,110,105,110,103>>, <<114,105,115,105,110,103>>,
     <<102,97,108,108,105,110,103>>, <<114,117,115,104,105,110,103>>,
     <<115,111,97,114,105,110,103>>, <<116,114,97,118,101,108,108,105,110,103>>,
     <<116,117,114,110,105,110,103>>, <<115,105,110,103,105,110,103>>,
     <<119,97,108,107,105,110,103>>, <<99,114,121,105,110,103>>,
     <<119,101,101,112,105,110,103>>, <<108,105,110,103,101,114,105,110,103>>,
     <<112,97,117,115,105,110,103>>, <<115,104,105,110,105,110,103>>, <<102,97,108,108>>,
     <<102,108,111,119>>, <<119,97,110,100,101,114>>, <<100,105,115,97,112,112,101,97,114>>,
     <<119,97,105,116>>, <<98,108,111,111,109>>, <<100,111,122,101>>,
     <<100,114,101,97,109>>, <<108,97,117,103,104>>, <<109,101,100,105,116,97,116,101>>,
     <<108,105,115,116,101,110>>, <<115,105,110,103>>, <<100,101,99,97,121>>,
     <<99,108,105,110,103>>, <<103,114,111,119>>, <<102,111,114,103,101,116>>,
     <<114,101,109,97,105,110>>, <<97,114,105,100>>, <<97,98,97,110,100,111,110,101,100>>,
     <<97,103,101,100>>, <<97,110,99,105,101,110,116>>, <<102,117,108,108>>,
     <<103,108,111,114,105,111,117,115>>, <<103,111,111,100>>,
     <<98,101,97,117,116,105,102,117,108>>, <<102,105,114,115,116>>, <<108,97,115,116>>,
     <<102,111,114,115,97,107,101,110>>, <<115,97,100>>, <<109,97,110,100,97,114,105,110>>,
     <<110,97,107,101,100>>, <<110,97,109,101,108,101,115,115>>, <<111,108,100>>,
     <<113,117,105,101,116>>, <<112,101,97,99,101,102,117,108>>, <<115,116,105,108,108>>,
     <<116,114,97,110,113,117,105,108>>, <<98,97,114,101>>, <<101,118,101,110,105,110,103>>,
     <<109,111,114,110,105,110,103>>, <<97,102,116,101,114,110,111,111,110>>,
     <<115,112,114,105,110,103>>, <<115,117,109,109,101,114>>, <<97,117,116,117,109,110>>,
     <<119,105,110,116,101,114>>, <<98,114,111,107,101,110>>, <<116,104,105,99,107>>,
     <<116,104,105,110>>, <<108,105,116,116,108,101>>, <<98,105,103>>,
     <<112,97,114,99,104,101,100>>, <<119,105,116,104,101,114,101,100>>,
     <<119,111,114,110>>, <<115,111,102,116>>, <<98,105,116,116,101,114>>,
     <<98,114,105,103,104,116>>, <<98,114,105,108,108,105,97,110,116>>, <<99,111,108,100>>,
     <<99,111,111,108>>, <<99,114,105,109,115,111,110>>, <<100,97,114,107>>,
     <<102,114,111,122,101,110>>, <<103,114,101,121>>, <<104,97,114,100>>, <<104,111,116>>,
     <<115,99,97,114,108,101,116>>, <<115,104,97,108,108,111,119>>, <<115,104,97,114,112>>,
     <<119,97,114,109>>, <<99,108,111,115,101>>, <<99,97,108,109>>, <<99,114,117,101,108>>,
     <<100,114,111,119,110,101,100>>, <<100,117,108,108>>, <<100,101,97,100>>,
     <<115,105,99,107>>, <<100,101,101,112>>, <<102,97,115,116>>,
     <<102,108,101,101,116,105,110,103>>, <<102,114,97,103,114,97,110,116>>,
     <<102,114,101,115,104>>, <<108,111,117,100>>, <<109,111,111,110,108,105,116>>,
     <<115,97,99,114,101,100>>, <<115,108,111,119>>, <<116,114,97,118,101,108,108,101,114>>,
     <<112,111,101,116>>, <<98,101,103,103,97,114>>, <<109,111,110,107>>,
     <<119,97,114,114,105,111,114>>, <<119,105,102,101>>,
     <<99,111,117,114,116,101,115,97,110>>, <<100,97,110,99,101,114>>,
     <<100,97,101,109,111,110>>, <<102,114,111,103>>, <<104,97,119,107,115>>,
     <<108,97,114,107,115>>, <<99,114,97,110,101,115>>, <<99,114,111,119,115>>,
     <<100,117,99,107,115>>, <<98,105,114,100,115>>, <<115,107,121,108,97,114,107>>,
     <<115,112,97,114,114,111,119,115>>, <<109,105,110,110,111,119,115>>,
     <<115,110,97,107,101,115>>, <<100,111,103>>, <<109,111,110,107,101,121,115>>,
     <<99,97,116,115>>, <<99,117,99,107,111,111,115>>, <<109,105,99,101>>,
     <<100,114,97,103,111,110,102,108,121>>, <<98,117,116,116,101,114,102,108,121>>,
     <<102,105,114,101,102,108,121>>, <<103,114,97,115,115,104,111,112,112,101,114>>,
     <<109,111,115,113,117,105,116,111,115>>, <<116,114,101,101,115>>,
     <<114,111,115,101,115>>, <<99,104,101,114,114,105,101,115>>,
     <<102,108,111,119,101,114,115>>, <<108,111,116,117,115,101,115>>,
     <<112,108,117,109,115>>, <<112,111,112,112,105,101,115>>,
     <<118,105,111,108,101,116,115>>, <<111,97,107,115>>, <<112,105,110,101,115>>,
     <<99,104,101,115,116,110,117,116,115>>, <<99,108,111,118,101,114,115>>,
     <<108,101,97,118,101,115>>, <<112,101,116,97,108,115>>, <<116,104,111,114,110,115>>,
     <<98,108,111,115,115,111,109,115>>, <<118,105,110,101,115>>,
     <<119,105,108,108,111,119,115>>, <<109,111,117,110,116,97,105,110>>,
     <<109,111,111,114>>, <<115,101,97>>, <<115,104,97,100,111,119>>,
     <<115,107,105,101,115>>, <<109,111,111,110>>, <<115,116,97,114>>,
     <<115,116,111,110,101>>, <<99,108,111,117,100>>, <<98,114,105,100,103,101>>,
     <<103,97,116,101>>, <<116,101,109,112,108,101>>, <<104,111,118,101,108>>,
     <<102,111,114,101,115,116>>, <<103,114,97,118,101>>, <<115,116,114,101,97,109>>,
     <<112,111,110,100>>, <<105,115,108,97,110,100>>, <<98,101,108,108>>, <<98,111,97,116>>,
     <<115,97,105,108,98,111,97,116>>, <<98,111,110,32,102,105,114,101>>,
     <<115,116,114,97,119,32,109,97,116>>, <<99,117,112>>, <<110,101,115,116>>,
     <<115,117,110>>, <<118,105,108,108,97,103,101>>, <<116,111,109,98>>,
     <<114,97,105,110,100,114,111,112>>, <<119,97,118,101>>, <<119,105,110,100>>,
     <<116,105,100,101>>, <<102,97,110>>, <<104,97,116>>, <<115,97,110,100,97,108>>,
     <<115,104,114,111,117,100>>, <<112,111,108,101>>, <<119,97,116,101,114>>,
     <<97,105,114>>, <<109,117,100>>, <<114,97,105,110>>, <<116,104,117,110,100,101,114>>,
     <<105,99,101>>, <<115,110,111,119>>, <<115,97,108,116>>, <<104,97,105,108>>,
     <<109,105,115,116>>, <<100,101,119>>, <<102,111,97,109>>, <<102,114,111,115,116>>,
     <<115,109,111,107,101>>, <<116,119,105,108,105,103,104,116>>, <<101,97,114,116,104>>,
     <<103,114,97,115,115>>, <<98,97,109,98,111,111>>, <<103,111,108,100>>,
     <<103,114,97,105,110>>, <<114,105,99,101>>, <<116,101,97>>, <<108,105,103,104,116>>,
     <<100,97,114,107,110,101,115,115>>, <<102,105,114,101,108,105,103,104,116>>,
     <<115,117,110,108,105,103,104,116>>, <<115,117,110,115,104,105,110,101>>,
     <<106,111,117,114,110,101,121>>, <<115,101,114,101,110,105,116,121>>,
     <<100,117,115,107>>, <<103,108,111,119>>, <<115,99,101,110,116>>,
     <<115,111,117,110,100>>, <<115,105,108,101,110,99,101>>, <<118,111,105,99,101>>,
     <<100,97,121>>, <<110,105,103,104,116>>, <<115,117,110,114,105,115,101>>,
     <<115,117,110,115,101,116>>, <<109,105,100,110,105,103,104,116>>,
     <<101,113,117,105,110,111,120>>, <<110,111,111,110>> >>

(* Frame[][MAXH]: the case frames; unlisted trailing slots are zero *)
Frame ==
  << <<4096, 8192, 32, 131073, 16, 131073, 3, 0, 0, 0, 0, 0, 0, 0, 0, 0>>,
     <<4096, 32, 131073, 8192, 16, 131073, 3, 0, 0, 0, 0, 0, 0, 0, 0, 0>>,
     <<4096, 128, 131073, 8192, 16, 131073, 3, 0, 0, 0, 0, 0, 0, 0, 0, 0>>,
     <<4096, 128, 131073, 131077, 8, 131073, 1, 0, 0, 0, 0, 0, 0, 0, 0, 0>>,
     <<384, 64, 131073, 4096, 131077, 8192, 8, 131075, 131073, 8193, 0, 0, 0, 0, 0, 0>>,
     <<384, 64, 131073, 8192, 32, 131073, 1, 0, 0, 0, 0, 0, 0, 0, 0, 0>>,
     <<384, 32, 131073, 2, 131081, 131074, 131073, 64, 0, 0, 0, 0, 0, 0, 0, 0>>,
     <<1, 4096, 131077, 8192, 8, 131073, 32, 1, 131075, 131073, 131077, 8192, 8, 0, 0, 0>>,
     <<1, 4096, 384, 32, 131073, 32, 1, 131075, 131073, 131077, 8192, 8, 0, 0, 0, 0>>,
     <<131077, 8, 131073, 4096, 128, 32, 131075, 131073, 8192, 0, 0, 0, 0, 0, 0, 0>> >>

(* Dict[w].fe and Dict[w].tok for a byte w *)
Fe(w) == DictFe[w + 1]
Tok(w) == DictTok[w + 1]

(* the redraw loop of trigg_gen, for at most n draws: draw words until one *)
(* suits frame slot f                                                      *)
RECURSIVE trigg_gen_draws(_, _, _)
trigg_gen_draws(s, f, n) ==
  LET d == trigg_rand(s)
      widx == BitAnd(d.r, MAXDICT - 1)
  IN  IF BitAnd(Fe(widx), f) # 0
        THEN [seed |-> d.seed, widx |-> widx, found |-> TRUE]
      ELSE IF n <= 1
        THEN [seed |-> d.seed, widx |-> widx, found |-> FALSE]
      ELSE trigg_gen_draws(d.seed, f, n - 1)

(* a word taken as first drawn, whether it suits the slot or not *)
trigg_gen_word_first(s, f) ==
  LET d == trigg_rand(s)
  IN  [seed |-> d.seed, widx |-> BitAnd(d.r, MAXDICT - 1), found |-> TRUE]

(* the redraw loop of trigg_gen, run 64 draws at a time until a word suits *)
RECURSIVE trigg_gen_word(_, _)
trigg_gen_word(s, f) ==
  LET c == trigg_gen_draws(s, f, 64)
  IN  IF c.found THEN c ELSE trigg_gen_word(c.seed, f)

(* the slot loop of trigg_gen: st holds the slot j (0-based), the seed and *)
(* the words hp written so far                                             *)
RECURSIVE trigg_gen_slots(_, _)
trigg_gen_slots(fp, st) ==
  IF st.j >= MAXH THEN [seed |-> st.seed, out |-> st.hp]
  ELSE IF fp[st.j + 1] = 0
    THEN trigg_gen_slots(fp, [j |-> st.j + 1, seed |-> st.seed,
                              hp |-> Append(st.hp, 0)])
  ELSE IF BitAnd(fp[st.j + 1], F_XLIT) # 0
    THEN trigg_gen_slots(fp, [j |-> st.j + 1, seed |-> st.seed,
                              hp |-> Append(st.hp, BitAnd(fp[st.j + 1], 255))])
  ELSE LET w == trigg_gen_word(st.seed, fp[st.j + 1])
       IN  trigg_gen_slots(fp, [j |-> st.j + 1, seed |-> w.seed,
                                hp |-> Append(st.hp, w.widx % 256)])

(* trigg_gen(out): the tokenized haiku written to out, and the seed left *)
trigg_gen(s) ==
  LET d == trigg_rand(s)
  IN  trigg_gen_slots(Frame[(d.r % NFRAMES) + 1],
                      [j |-> 0, seed |-> d.seed, hp |-> <<>>])

(* what trigg_gen can write for the frame fp, whatever the numbers drawn:  *)
(* 0 in a zero slot, the literal in a literal slot, a word that suits the  *)
(* slot in any other                                                       *)
trigg_gen_can_frame(fp, np) ==
  \A j \in 0..(MAXH - 1) :
    IF fp[j + 1] = 0 THEN np[j + 1] = 0
    ELSE IF BitAnd(fp[j + 1], F_XLIT) # 0
      THEN np[j + 1] = BitAnd(fp[j + 1], 255)
    ELSE BitAnd(Fe(np[j + 1]), fp[j + 1]) # 0

(* the token arrays trigg_gen can write, for some frame and numbers drawn *)
trigg_gen_can(np) ==
  \E f \in 1..NFRAMES : trigg_gen_can_frame(Frame[f], np)

(* trigg_syntax that goes on past a zero slot of the frame and wants every *)
(* later slot empty as well                                                *)
RECURSIVE trigg_syntax_frame_all(_, _, _)
trigg_syntax_frame_all(fp, np, j) ==
  IF j >= MAXH THEN TRUE
  ELSE IF fp[j + 1] = 0
    THEN Fe(np[j + 1]) = 0 /\ trigg_syntax_frame_all(fp, np, j + 1)
  ELSE IF BitAnd(fp[j + 1], F_XLIT) # 0
    THEN IF BitAnd(fp[j + 1], 255) # np[j + 1] THEN FALSE
         ELSE trigg_syntax_frame_all(fp, np, j + 1)
  ELSE IF BitAnd(Fe(np[j + 1]), fp[j + 1]) = 0 THEN FALSE
  ELSE trigg_syntax_frame_all(fp, np, j + 1)

(* trigg_syntax: slots j.. of the haiku np unify with the frame fp *)
RECURSIVE trigg_syntax_frame(_, _, _)
trigg_syntax_frame(fp, np, j) ==
  IF j >= MAXH THEN TRUE
  ELSE IF fp[j + 1] = 0 THEN Fe(np[j + 1]) = 0
  ELSE IF BitAnd(fp[j + 1], F_XLIT) # 0
    THEN IF BitAnd(fp[j + 1], 255) # np[j + 1] THEN FALSE
         ELSE trigg_syntax_frame(fp, np, j + 1)
  ELSE IF BitAnd(Fe(np[j + 1]), fp[j + 1]) = 0 THEN FALSE
  ELSE trigg_syntax_frame(fp, np, j + 1)

(* trigg_syntax(nonce): 1 when the 16 tokens unify with some frame, else 0 *)
trigg_syntax(np) ==
  IF \E f \in 1..NFRAMES : trigg_syntax_frame(Frame[f], np, 0) THEN 1 ELSE 0

(* an expansion that reads a leading backspace of a token as a teletype   *)
(* does: the byte before it is erased and the backspace is not stored      *)
RECURSIVE trigg_expand_words_erase(_, _, _)
trigg_expand_words_erase(np, i, bp) ==
  IF i >= MAXH \/ np[i + 1] = 0 THEN bp
  ELSE LET t == Tok(np[i + 1])
           w == IF t[1] = 8 /\ Len(bp) > 0
                  THEN SubSeq(bp, 1, Len(bp) - 1) \o SubSeq(t, 2, Len(t))
                  ELSE bp \o t
       IN  IF w[Len(w)] # 10
             THEN trigg_expand_words_erase(np, i + 1, Append(w, 32))
             ELSE trigg_expand_words_erase(np, i + 1, w)

(* the word loop of trigg_expand, from word i (0-based), text bp so far *)
RECURSIVE trigg_expand_words(_, _, _)
trigg_expand_words(np, i, bp) ==
  IF i >= MAXH \/ np[i + 1] = 0 THEN bp
  ELSE LET w == bp \o Tok(np[i + 1])
       IN  IF w[Len(w)] # 10
             THEN trigg_expand_words(np, i + 1, Append(w, 32))
             ELSE trigg_expand_words(np, i + 1, w)

(* trigg_expand(nonce, haiku): the HAIKUSIZE bytes left in haiku *)
trigg_expand(np) ==
  LET bp == trigg_expand_words(np, 0, <<>>)
  IN  bp \o Zeros(HAIKUSIZE - Len(bp))

(* the coarse check of trigg_eval: n more bytes from offset p must be zero *)
RECURSIVE trigg_eval_coarse(_, _, _)
trigg_eval_coarse(hash, p, n) ==
  IF n = 0 THEN TRUE
  ELSE IF hash[p + 1] # 0 THEN FALSE
  ELSE trigg_eval_coarse(hash, p + 1, n - 1)

(* the conversion of an unsigned value to uint8_t, as for the diff         *)
(* parameter of trigg_eval                                                 *)
uint8_t(n) == n % 256

(* trigg_eval with the mask of the fine check not inverted *)
trigg_eval_nonot(hash, diff) ==
  LET n == Shr(diff, 3) IN
  IF ~trigg_eval_coarse(hash, 0, n) THEN 0
  ELSE IF BitAnd(diff, 7) = 0 THEN 1
  ELSE IF BitAnd(hash[n + 1], Shr(255, BitAnd(diff, 7))) # 0 THEN 0
  ELSE 1

(* trigg_eval without the fine check *)
trigg_eval_coarse_only(hash, diff) ==
  IF ~trigg_eval_coarse(hash, 0, Shr(diff, 3)) THEN 0 ELSE 1

(* trigg_eval(hash, diff) for a uint8_t diff: 1 if solved, else 0 *)
trigg_eval(hash, diff) ==
  LET n == Shr(diff, 3) IN
  IF ~trigg_eval_coarse(hash, 0, n) THEN 0
  ELSE IF BitAnd(diff, 7) = 0 THEN 1
  ELSE IF BitAnd(hash[n + 1], 255 - Shr(255, BitAnd(diff, 7))) # 0 THEN 0
  ELSE 1

-----------------------------------------------------------------------------
(* The hash primitives of ../hash/ (outside this model's sources): each    *)
(* is a deterministic function from the bytes fed to it to a digest of     *)
(* its length.  A small mixing function stands for all of them, keyed by   *)
(* the algorithm.                                                          *)

(* b^e modulo 32749, by squaring *)
RECURSIVE DigestPow(_, _)
DigestPow(b, e) ==
  IF e = 0 THEN 1
  ELSE LET q == DigestPow(b, e \div 2)
       IN  (((q * q) % 32749) * (IF e % 2 = 1 THEN b ELSE 1)) % 32749

(* the polynomial in 251 of the bytes lo..hi of msg, modulo 32749 *)
RECURSIVE DigestFold(_, _, _)
DigestFold(msg, lo, hi) ==
  IF lo > hi THEN 0
  ELSE IF lo = hi THEN msg[lo] + 1
  ELSE LET mid == (lo + hi) \div 2
       IN  (DigestFold(msg, lo, mid) * DigestPow(251, hi - mid)
              + DigestFold(msg, mid + 1, hi)) % 32749

Digest(alg, msg, n) ==
  LET m == Force(msg)
      h == (DigestFold(m, 1, Len(m)) + (alg + 7) * DigestPow(251, Len(m))) % 32749
  IN  Force([i \in 1..n |->
               ((((h + 13) * (2 * i + 1) * (i + 7)) \div 64) + i * alg) % 256])

sha256(msg) == Digest(3, msg, 32)
sha1(msg) == Digest(2, msg, 20)
sha3(msg) == Digest(4, msg, 32)
keccak(msg) == Digest(5, msg, 32)
md2(msg) == Digest(6, msg, 16)
md5(msg) == Digest(7, msg, 16)
blake2b(key, msg) == Digest(Len(key), key \o msg, 32)

-----------------------------------------------------------------------------
(* Nighthash.                                                              *)

(* the bit pattern of a float held in 4 bytes: exponent and mantissa *)
FloatExp(f) == (f[4] % 128) * 2 + f[3] \div 128
FloatMan(f) == (f[3] % 128) * 65536 + f[2] * 256 + f[1]

(* isnan() *)
IsNaN(f) == FloatExp(f) = 255 /\ FloatMan(f) # 0

RECURSIVE Log2(_)
Log2(n) == IF n <= 1 THEN 0 ELSE 1 + Log2(n \div 2)

(* (float) index, for an index below 2^24: the conversion is exact *)
FloatOfIndex(index) ==
  IF index = 0 THEN <<0, 0, 0, 0>>
  ELSE LET e == Log2(index)
           m == (index - Pow2(e)) * Pow2(23 - e)
           x == 127 + e
       IN  <<m % 256, (m \div 256) % 256,
             (m \div 65536) + 128 * (x % 2), x \div 2>>

(* *flp op= flv of the floating point unit, which is no part of the        *)
(* sources: a deterministic function of the operation, the 4 bytes of      *)
(* *flp, the operand byte and its sign flag stands for it.                 *)
FloatArith(sel, f, operand, neg) ==
  Force([k \in 1..4 |->
           (f[k] * (sel + 2) + f[((k + sel) % 4) + 1] + operand * (k + sel)
              + neg * 128 + 17 * k) % 256])

(* *flp, with a NaN replaced by (float) index *)
peach_dflop_nan(flp, index) ==
  IF IsNaN(flp) THEN FloatOfIndex(index) ELSE flp

(* the end of a lane of peach_dflop: the 4 bytes of *flp are added to op *)
peach_dflop_sum(op, flp) ==
  [op |-> op + flp[1] + flp[2] + flp[3] + flp[4], flp |-> flp]

(* one 4-byte lane of peach_dflop: the new op and the 4 bytes of *flp *)
peach_dflop_lane(bp, op, index) ==
  LET shift == (BitAnd(bp[1], 7) + 1) * 2
      op1 == op + bp[BitAnd(Shr(158772, shift), 3) + 1]
      operand == bp[BitAnd(Shr(82328, shift), 3) + 1]
      neg == BitAnd(bp[BitAnd(Shr(251628, shift), 3) + 1], 1)
      f1 == FloatArith(BitAnd(op1, 3), peach_dflop_nan(bp, index), operand, neg)
  IN  peach_dflop_sum(op1, peach_dflop_nan(f1, index))

(* a lane loop that modifies the input data whether txf is set or not *)
RECURSIVE peach_dflop_loop_inplace(_, _, _, _)
peach_dflop_loop_inplace(len, index, txf, st) ==
  IF st.i >= len THEN [op |-> st.op, data |-> st.data]
  ELSE LET r == peach_dflop_lane(Bytes(st.data, st.i, 4), st.op, index)
       IN  peach_dflop_loop_inplace(len, index, txf,
             [i |-> st.i + 4, op |-> r.op,
              data |-> Poke(st.data, st.i, r.flp)])

(* the lane loop of peach_dflop; st holds the C offset i, op and the data. *)
(* len is already a multiple of 4.  With txf the lane is modified in       *)
(* place.                                                                  *)
RECURSIVE peach_dflop_loop(_, _, _, _)
peach_dflop_loop(len, index, txf, st) ==
  IF st.i >= len THEN [op |-> st.op, data |-> st.data]
  ELSE LET r == peach_dflop_lane(Bytes(st.data, st.i, 4), st.op, index)
       IN  peach_dflop_loop(len, index, txf,
             [i |-> st.i + 4, op |-> r.op,
              data |-> IF txf # 0 THEN Poke(st.data, st.i, r.flp) ELSE st.data])

(* peach_dflop(data, len, index, txf): the op returned and data afterwards *)
peach_dflop(data, len, index, txf) ==
  peach_dflop_loop(len - BitAnd(len, 3), index, txf,
                   [i |-> 0, op |-> 0, data |-> Force(data)])

(* case 0 and 2 of peach_dmemtx: the quadwords 0 .. len64-1, then the      *)
(* dwords 2*len64 .. len32-1, each byte of them xor-ed with x (0x81 in     *)
(* case 0; 0xff, the complement, in case 2)                                *)
peach_dmemtx_words(bp, len, x) ==
  LET len32 == Shr(len, 2)
      len64 == Shr(len, 3)
  IN  Force([z \in 1..Len(bp) |->
               IF z <= 8 * len64 THEN BitXor(bp[z], x)
               ELSE IF z > 8 * len64 /\ z <= 4 * len32 THEN BitXor(bp[z], x)
               ELSE bp[z]])

(* case 7 of peach_dmemtx: bp[z] ^= bp[z-1] for z = 1 .. len-1, in order;  *)
(* st holds z and the buffer                                               *)
RECURSIVE peach_dmemtx_xor(_, _)
peach_dmemtx_xor(len, st) ==
  IF st.z >= len THEN st.bp
  ELSE peach_dmemtx_xor(len,
         [z |-> st.z + 1,
          bp |-> Poke(st.bp, st.z, <<BitXor(st.bp[st.z + 1], st.bp[st.z])>>)])

(* one transformation of peach_dmemtx, selected by t = op & 7, in round i *)
peach_dmemtx_case(bp, len, t, i) ==
  LET halflen == Shr(len, 1) IN
  Force(
  CASE t = 0 -> peach_dmemtx_words(bp, len, 129)
    [] t = 1 -> [z \in 1..Len(bp) |->
                   IF z <= halflen THEN bp[z + halflen]
                   ELSE IF z <= 2 * halflen THEN bp[z - halflen]
                   ELSE bp[z]]
    [] t = 2 -> peach_dmemtx_words(bp, len, 255)
    [] t = 3 -> [z \in 1..Len(bp) |->
                   IF z > len THEN bp[z]
                   ELSE IF (z - 1) % 2 = 0 THEN (bp[z] + 1) % 256
                   ELSE (bp[z] + 255) % 256]
    [] t = 4 -> [z \in 1..Len(bp) |->
                   IF z > len THEN bp[z]
                   ELSE IF (z - 1) % 2 = 0 THEN (bp[z] + 256 - i) % 256
                   ELSE (bp[z] + i) % 256]
    [] t = 5 -> [z \in 1..Len(bp) |->
                   IF z <= len /\ bp[z] = 104 THEN 72 ELSE bp[z]]
    [] t = 6 -> [z \in 1..Len(bp) |->
                   IF z <= halflen
                     THEN (IF bp[z] > bp[z + halflen]
                             THEN bp[z + halflen] ELSE bp[z])
                   ELSE IF z <= 2 * halflen
                     THEN (IF bp[z - halflen] > bp[z]
                             THEN bp[z - halflen] ELSE bp[z])
                   ELSE bp[z]]
    [] t = 7 -> peach_dmemtx_xor(len, [z |-> 1, bp |-> bp]))

(* the round loop of peach_dmemtx; st holds the round i, op and the data *)
RECURSIVE peach_dmemtx_loop(_, _)
peach_dmemtx_loop(len, st) ==
  IF st.i >= PEACH_RNDS THEN [op |-> st.op, data |-> st.data]
  ELSE LET op1 == st.op + st.data[BitAnd(st.i, 31) + 1]
       IN  peach_dmemtx_loop(len,
             [i |-> st.i + 1, op |-> op1,
              data |-> peach_dmemtx_case(st.data, len, BitAnd(op1, 7), st.i)])

(* peach_dmemtx(data, len, op): the op returned and data afterwards *)
peach_dmemtx(data, len, op) ==
  peach_dmemtx_loop(len, [i |-> 0, op |-> op, data |-> data])

(* the switch of peach_nighthash: the HASHLEN bytes left in out, whose     *)
(* previous content is old, by the algorithm algo_type on the bytes msg    *)
peach_nighthash_switch(algo_type, msg, old) ==
  CASE algo_type \in {0, 1} ->
         blake2b(Force([i \in 1..(IF algo_type # 0 THEN 64 ELSE 32) |-> algo_type]),
                 msg)
    [] algo_type = 2 ->
         Poke(Poke(Poke(old, 0, sha1(msg)), 20, Zeros(4)), 24, Zeros(8))
    [] algo_type = 3 -> sha256(msg)
    [] algo_type = 4 -> sha3(msg)
    [] algo_type = 5 -> keccak(msg)
    [] algo_type = 6 ->
         Poke(Poke(Poke(old, 0, md2(msg)), 16, Zeros(8)), 24, Zeros(8))
    [] algo_type = 7 ->
         Poke(Poke(Poke(old, 0, md5(msg)), 16, Zeros(8)), 24, Zeros(8))

(* peach_nighthash from the algo type on: b holds the op value and the     *)
(* input buffer as the transformations left it                             *)
peach_nighthash_algo(b, inlen, index, hashindex, old) ==
  [in |-> b.data,
   out |-> peach_nighthash_switch(
             BitAnd(b.op, 7),
             Bytes(b.data, 0, inlen) \o
               (IF hashindex # 0 THEN StoreLE32(ToU32(index)) ELSE <<>>),
             old)]

(* if(txf) algo_type = peach_dmemtx(in, inlen, algo_type), for the result  *)
(* a of peach_dflop                                                        *)
peach_nighthash_tx(a, inlen, txf) ==
  IF txf # 0 THEN peach_dmemtx(a.data, inlen, a.op) ELSE a

(* peach_nighthash(in, inlen, index, hashindex, txf, out): the bytes left  *)
(* in the input buffer and the HASHLEN bytes left in out, whose previous   *)
(* content is old.                                                         *)
peach_nighthash(in, inlen, index, hashindex, txf, old) ==
  peach_nighthash_algo(
    peach_nighthash_tx(peach_dflop(in, inlen, index, txf), inlen, txf),
    inlen, index, hashindex, old)

-----------------------------------------------------------------------------
(* Peach: the map of tiles.                                                *)

PEACH_MAP == Pow2(MapBits)              \* tiles in the map
PEACH_TILE == TileRows * PEACH_ROW      \* bytes in a tile
PEACH_SIZE == PEACH_MAP * PEACH_TILE    \* bytes in the map
PEACH_GEN == HASHLEN + 4
PEACH_NEXT == HASHLEN + 4 + PEACH_TILE

(* the sum dhash[0] + ... + dhash[7] of peach_next; st holds the word k    *)
(* and the sum so far                                                      *)
RECURSIVE peach_next_sum(_, _)
peach_next_sum(hash, st) ==
  IF st.k >= 8 THEN st.sum
  ELSE peach_next_sum(hash, [k |-> st.k + 1,
                             sum |-> Add32(st.sum, LoadLE32(hash, 4 * st.k))])

(* peach_next(index, dtile, qnonce): the next index on the map *)
peach_next(index, dtile, qnonce) ==
  LET seed == qnonce \o StoreLE32(ToU32(index)) \o dtile
      hash == peach_nighthash(seed, PEACH_NEXT, index, 0, 0,
                              Force([i \in 1..HASHLEN |-> 204])).out
  IN  ToInt(And32(peach_next_sum(hash, [k |-> 0, sum |-> U32(0, 0)]),
                  ToU32(PEACH_MAP - 1)))

(* one call of the chain of nighthash calls of peach_gen: h holds the row  *)
(* k - 1 as the call transformed it and the row k it wrote                 *)
peach_gen_row(tilep, k, h) ==
  Poke(Poke(tilep, PEACH_ROW * (k - 1), h.in), PEACH_ROW * k, h.out)

(* the chain of peach_gen cut short: the rows after the first are left as  *)
(* they were                                                               *)
peach_gen_rows_none(index, st) == st.tilep

(* the chain of nighthash calls of peach_gen that fills the rows of the    *)
(* tile from the row before; each call transforms the row it reads.  st    *)
(* holds the row k to fill and the tile.                                   *)
RECURSIVE peach_gen_rows(_, _)
peach_gen_rows(index, st) ==
  IF st.k >= TileRows THEN st.tilep
  ELSE peach_gen_rows(index,
         [k |-> st.k + 1,
          tilep |-> peach_gen_row(st.tilep, st.k,
                      peach_nighthash(
                        Bytes(st.tilep, PEACH_ROW * (st.k - 1), HASHLEN),
                        HASHLEN, index, 1, 1,
                        Bytes(st.tilep, PEACH_ROW * st.k, HASHLEN)))])

(* the tile peach_gen leaves in the PEACH_TILE bytes tilep for the index   *)
(* and the previous block hash phash                                       *)
peach_gen_tile(phash, index, tilep) ==
  LET seed == StoreLE32(ToU32(index)) \o phash
      h == peach_nighthash(seed, PEACH_GEN, index, 0, 1,
                           Bytes(tilep, 0, HASHLEN))
  IN  peach_gen_rows(index, [k |-> 1, tilep |-> Poke(tilep, 0, h.out)])

NULL == 0

(* the bytes of the block a pointer p designates *)
Mem(hp, p) == hp[p].mem

(* the stores of peach_gen that mark the tile present, the tile written to *)
(* the context's own tile in place of the map                              *)
peach_gen_store_unfilled(Pc, hp, index, t) ==
  IF Pc.map # NULL
    THEN [P |-> [Pc EXCEPT !.tile = t],
          heap |-> [hp EXCEPT ![Pc.cache].mem[index + 1] = 1],
          tile |-> t]
    ELSE [P |-> [Pc EXCEPT !.tile = t], heap |-> hp, tile |-> t]

(* the stores of peach_gen, the tile written to the slot after its own *)
peach_gen_store_neighbour(Pc, hp, index, t) ==
  IF Pc.map # NULL
    THEN [P |-> Pc,
          heap |-> [hp EXCEPT
                      ![Pc.cache].mem[index + 1] = 1,
                      ![Pc.map].mem =
                         Poke(@, ((index + 1) % PEACH_MAP) * PEACH_TILE, t)],
          tile |-> t]
    ELSE [P |-> [Pc EXCEPT !.tile = t], heap |-> hp, tile |-> t]

(* the stores of peach_gen for the index: P->cache[index] = 1 and the tile *)
(* t written through tilep, which points into the map, or else to P->tile  *)
peach_gen_store(Pc, hp, index, t) ==
  IF Pc.map # NULL
    THEN [P |-> Pc,
          heap |-> [hp EXCEPT
                      ![Pc.cache].mem[index + 1] = 1,
                      ![Pc.map].mem = Poke(@, index * PEACH_TILE, t)],
          tile |-> t]
    ELSE [P |-> [Pc EXCEPT !.tile = t], heap |-> hp, tile |-> t]

(* peach_gen that takes a tile marked present from the start of the map *)
peach_gen_first(Pc, hp, trailer, index) ==
  IF Pc.cache # NULL /\ Mem(hp, Pc.cache)[index + 1] # 0
    THEN [P |-> Pc, heap |-> hp,
          tile |-> Bytes(Mem(hp, Pc.map), 0, PEACH_TILE)]
  ELSE peach_gen_store(Pc, hp, index,
         peach_gen_tile(
           Bytes(trailer, OFF_PHASH, HASHLEN), index,
           IF Pc.map # NULL
             THEN Bytes(Mem(hp, Pc.map), index * PEACH_TILE, PEACH_TILE)
             ELSE Pc.tile))

(* peach_gen(P, index): the context and the heap it leaves, and the bytes  *)
(* of the tile the returned pointer designates                             *)
peach_gen(Pc, hp, trailer, index) ==
  IF Pc.cache # NULL /\ Mem(hp, Pc.cache)[index + 1] # 0
    THEN [P |-> Pc, heap |-> hp,
          tile |-> Bytes(Mem(hp, Pc.map), index * PEACH_TILE, PEACH_TILE)]
  ELSE peach_gen_store(Pc, hp, index,
         peach_gen_tile(
           Bytes(trailer, OFF_PHASH, HASHLEN), index,
           IF Pc.map # NULL
             THEN Bytes(Mem(hp, Pc.map), index * PEACH_TILE, PEACH_TILE)
             ELSE Pc.tile))

(* mario's initial position: the product of the bytes of bt_hash; st holds *)
(* the byte i to multiply by and the product so far                        *)
RECURSIVE peach_mario(_, _)
peach_mario(bt_hash, st) ==
  IF st.i >= HASHLEN THEN st.mario
  ELSE peach_mario(bt_hash, [i |-> st.i + 1,
                             mario |-> Mul32(st.mario, bt_hash[st.i + 1])])

(* the walk's record of an index kept as it was before the mask was        *)
(* applied to it, PEACH_MAP further on                                     *)
peach_land_on_unmasked(st, mario, n) ==
  [i |-> st.i + 1, P |-> n.P, heap |-> n.heap, tile |-> n.tile,
   path |-> Append(st.path, mario + PEACH_MAP), tiles |-> Append(st.tiles, n.tile)]

(* mario stands on the tile n that peach_gen returned for the index mario. *)
(* st holds the number i of jumps made (-1 before the first tile), the     *)
(* context and heap, the tile mario stands on, and the indices and tiles   *)
(* visited                                                                 *)
peach_land_on(st, mario, n) ==
  [i |-> st.i + 1, P |-> n.P, heap |-> n.heap, tile |-> n.tile,
   path |-> Append(st.path, mario), tiles |-> Append(st.tiles, n.tile)]

(* tilep = peach_gen(P, mario) *)
peach_land(trailer, st, mario) ==
  peach_land_on(st, mario, peach_gen(st.P, st.heap, trailer, mario))

(* the jumps across the map of peach_generate and peach_checkhash *)
RECURSIVE peach_jump(_, _, _)
peach_jump(trailer, nonce, st) ==
  IF st.i >= PEACH_JUMP
    THEN [P |-> st.P, heap |-> st.heap, tile |-> st.tile, path |-> st.path,
          tiles |-> st.tiles]
  ELSE peach_jump(trailer, nonce,
         peach_land(trailer, st,
                    peach_next(st.path[Len(st.path)], st.tile, nonce)))

(* the walk from bt_hash: mario's start, the first tile, the jumps *)
peach_walk(Pc, hp, trailer, nonce, bt_hash) ==
  peach_jump(trailer, nonce,
    peach_land(trailer,
      [i |-> -1, P |-> Pc, heap |-> hp, tile |-> <<>>, path |-> <<>>,
       tiles |-> <<>>],
      ToInt(And32(peach_mario(bt_hash, [i |-> 1, mario |-> U32(0, bt_hash[1])]),
                  ToU32(PEACH_MAP - 1)))))

-----------------------------------------------------------------------------
(* The heap.                                                               *)

(* malloc(size): on success a new live block of indeterminate content g *)
malloc(hp, size, ok, g) ==
  IF ok
    THEN [heap |-> Append(hp, [size |-> size, live |-> TRUE, frees |-> 0,
                               mem |-> Force([i \in 1..size |-> g])]),
          p |-> Len(hp) + 1]
    ELSE [heap |-> hp, p |-> NULL]

(* free(p): the block is released and its bytes are gone; frees counts    *)
(* its releases                                                            *)
free(hp, p) ==
  [hp EXCEPT ![p] = [size |-> hp[p].size, live |-> FALSE,
                     frees |-> hp[p].frees + 1, mem |-> <<>>]]

(* a zeroing loop that runs over every block of the heap *)
ZeroQwords_all(hp, p, len) ==
  Force([b \in 1..Len(hp) |->
           [hp[b] EXCEPT !.mem = Force([i \in 1..Len(hp[b].mem) |-> 0])]])

(* the zeroing loop of peach_solve: len 64-bit words from the start of p *)
ZeroQwords(hp, p, len) ==
  LET m == hp[p].mem
  IN  [hp EXCEPT ![p].mem =
         Force([i \in 1..Len(m) |-> IF i <= 8 * len THEN 0 ELSE m[i]])]

-----------------------------------------------------------------------------
(* Peach: the operations on a PEACH_ALGO context.                          *)

(* memset(P, 0, sizeof(PEACH_ALGO)) *)
PeachZero ==
  [bt |-> NULL, map |-> NULL, cache |-> NULL, tile |-> Zeros(PEACH_TILE),
   nonce |-> Zeros(HASHLEN), diff |-> U32(0, 0)]

(* the address of the caller's trailer *)
BtPtr == 1

(* peach_free that leaves the pointers as they are *)
peach_free_keep(Pc, hp) ==
  LET h1 == IF Pc.map # NULL THEN free(hp, Pc.map) ELSE hp
      h2 == IF Pc.cache # NULL THEN free(h1, Pc.cache) ELSE h1
  IN  [P |-> Pc, heap |-> h2]

(* peach_free(P): the context and the heap it leaves *)
peach_free(Pc, hp) ==
  LET h1 == IF Pc.map # NULL THEN free(hp, Pc.map) ELSE hp
      h2 == IF Pc.cache # NULL THEN free(h1, Pc.cache) ELSE h1
  IN  [P |-> [Pc EXCEPT !.map = NULL, !.cache = NULL], heap |-> h2]

(* peach_solve that returns on a failed allocation without releasing *)
peach_solve_nofree(hp, trailer, seed, mok, cok, g) ==
  LET m == malloc(hp, PEACH_SIZE, mok, g)
      c == malloc(m.heap, PEACH_MAP, cok, g)
      P1 == [PeachZero EXCEPT !.map = m.p, !.cache = c.p]
  IN  IF P1.map # NULL /\ P1.cache # NULL
        THEN LET z1 == ZeroQwords(c.heap, P1.map, Shr(PEACH_SIZE, 3))
                 z2 == ZeroQwords(z1, P1.cache, Shr(PEACH_MAP, 3))
                 h == trigg_gen(seed)
             IN  [P |-> [P1 EXCEPT !.bt = BtPtr,
                                   !.diff = LoadLE32(trailer, OFF_DIFFICULTY),
                                   !.nonce = Poke(@, 16, h.out)],
                  heap |-> z2, seed |-> h.seed, ret |-> 0]
        ELSE [P |-> P1, heap |-> c.heap, seed |-> seed, ret |-> 1]

(* peach_solve(P, bt), where the two malloc calls succeed as mok and cok *)
peach_solve(hp, trailer, seed, mok, cok, g) ==
  LET m == malloc(hp, PEACH_SIZE, mok, g)
      c == malloc(m.heap, PEACH_MAP, cok, g)
      P1 == [PeachZero EXCEPT !.map = m.p, !.cache = c.p]
  IN  IF P1.map # NULL /\ P1.cache # NULL
        THEN LET z1 == ZeroQwords(c.heap, P1.map, Shr(PEACH_SIZE, 3))
                 z2 == ZeroQwords(z1, P1.cache, Shr(PEACH_MAP, 3))
                 h == trigg_gen(seed)
             IN  [P |-> [P1 EXCEPT !.bt = BtPtr,
                                   !.diff = LoadLE32(trailer, OFF_DIFFICULTY),
                                   !.nonce = Poke(@, 16, h.out)],
                  heap |-> z2, seed |-> h.seed, ret |-> 0]
        ELSE LET f == peach_free(P1, c.heap)
             IN  [P |-> f.P, heap |-> f.heap, seed |-> seed, ret |-> 1]

(* STATIC_PEACH_MAP: the addresses of the static arrays Map_peach and       *)
(* Cache_peach, and the memory holding them when the program starts        *)
Map_peach == 1
Cache_peach == 2

StaticMem ==
  << [size |-> PEACH_SIZE, live |-> TRUE, frees |-> 0, mem |-> Zeros(PEACH_SIZE)],
     [size |-> PEACH_MAP, live |-> TRUE, frees |-> 0, mem |-> Zeros(PEACH_MAP)] >>

(* peach_free(P) compiled with STATIC_PEACH_MAP: nothing is released *)
peach_free_static(Pc, hp) ==
  [P |-> [Pc EXCEPT !.map = NULL, !.cache = NULL], heap |-> hp]

(* peach_solve(P, bt) compiled with STATIC_PEACH_MAP *)
peach_solve_static(hp, trailer, seed) ==
  LET P1 == [PeachZero EXCEPT !.map = Map_peach, !.cache = Cache_peach]
  IN  IF P1.map # NULL /\ P1.cache # NULL
        THEN LET z1 == ZeroQwords(hp, P1.map, Shr(PEACH_SIZE, 3))
                 z2 == ZeroQwords(z1, P1.cache, Shr(PEACH_MAP, 3))
                 h == trigg_gen(seed)
             IN  [P |-> [P1 EXCEPT !.bt = BtPtr,
                                   !.diff = LoadLE32(trailer, OFF_DIFFICULTY),
                                   !.nonce = Poke(@, 16, h.out)],
                  heap |-> z2, seed |-> h.seed, ret |-> 0]
        ELSE LET f == peach_free_static(P1, hp)
             IN  [P |-> f.P, heap |-> f.heap, seed |-> seed, ret |-> 1]

(* the evaluation of the final hash against the difficulty diff, with the  *)
(* values it was computed from                                             *)
peach_verdict(w, bt_hash, hash, diff) ==
  [P |-> w.P, heap |-> w.heap, hashed |-> TRUE, bt_hash |-> bt_hash,
   path |-> w.path, tiles |-> w.tiles, tile |-> w.tile, hash |-> hash,
   ret |-> trigg_eval(hash, diff)]

(* a final hash of bt_hash and the tile the walk started on *)
peach_final_first(w, bt_hash, diff) ==
  peach_verdict(w, bt_hash, sha256(bt_hash \o w.tiles[1]), diff)

(* the final sha256 hash, of bt_hash and the tile the walk w ended on *)
peach_final(w, bt_hash, diff) ==
  peach_verdict(w, bt_hash, sha256(bt_hash \o w.tile), diff)

(* what peach_generate and peach_checkhash share, from the hash bt_hash of *)
(* the trailer on: the walk, the final hash and its evaluation             *)
peach_hash(Pc, hp, trailer, nonce, bt_hash, diff) ==
  peach_final(peach_walk(Pc, hp, trailer, nonce, bt_hash), bt_hash, diff)

(* peach_generate hashing the 124 bytes of the trailer, with the nonce     *)
(* field as the caller left it, in place of the context's nonce            *)
peach_generate_hash_stale(Pc, hp, trailer) ==
  peach_hash(Pc, hp, trailer, Pc.nonce, sha256(Bytes(trailer, 0, 124)),
             uint8_t(Lo(Pc.diff)))

(* peach_generate after the nonce was advanced: the hash of the known      *)
(* trailer, the walk, the final hash and its evaluation                    *)
peach_generate_hash(Pc, hp, trailer) ==
  peach_hash(Pc, hp, trailer, Pc.nonce,
             sha256(Bytes(trailer, 0, 92) \o Bytes(Pc.nonce, 0, 32)),
             uint8_t(Lo(Pc.diff)))

(* an end of peach_generate that writes out whatever the evaluation *)
peach_generate_out_always(seed, r) ==
  [P |-> r.P, heap |-> r.heap, seed |-> seed, ret |-> r.ret,
   wrote |-> TRUE, out |-> r.P.nonce,
   bt_hash |-> r.bt_hash, path |-> r.path, tiles |-> r.tiles,
   hash |-> r.hash]

(* the end of peach_generate: ret is the value returned; out is written    *)
(* (wrote) only on success                                                 *)
peach_generate_out(seed, r) ==
  [P |-> r.P, heap |-> r.heap, seed |-> seed, ret |-> r.ret,
   wrote |-> r.ret = 1, out |-> r.P.nonce,
   bt_hash |-> r.bt_hash, path |-> r.path, tiles |-> r.tiles,
   hash |-> r.hash]

(* peach_generate that draws a new secondary haiku and keeps the primary   *)
(* haiku as it was                                                         *)
peach_generate_noadvance(Pc, hp, trailer, seed) ==
  LET h == trigg_gen(seed)
  IN  peach_generate_out(h.seed,
        peach_generate_hash([Pc EXCEPT !.nonce = Bytes(Pc.nonce, 0, 16) \o h.out],
                            hp, trailer))

(* peach_generate(P, out) *)
peach_generate(Pc, hp, trailer, seed) ==
  LET h == trigg_gen(seed)
  IN  peach_generate_out(h.seed,
        peach_generate_hash([Pc EXCEPT !.nonce = Bytes(Pc.nonce, 16, 16) \o h.out],
                            hp, trailer))

(* peach_checkhash(bt, out): ret is the value returned; hashed tells       *)
(* whether the syntax checks passed, after which the hashes are computed   *)
peach_checkhash(trailer) ==
  IF trigg_syntax(Bytes(trailer, OFF_NONCE, 16)) = 0
       \/ trigg_syntax(Bytes(trailer, OFF_NONCE + 16, 16)) = 0
    THEN [ret |-> 0, hashed |-> FALSE]
  ELSE peach_hash([PeachZero EXCEPT !.bt = BtPtr], <<>>, trailer,
                  Bytes(trailer, OFF_NONCE, 32), sha256(Bytes(trailer, 0, 124)),
                  trailer[OFF_DIFFICULTY + 1])

-----------------------------------------------------------------------------
(* Trigg: the operations on a TRIGG_ALGO context.                          *)

TriggZero ==
  [mroot |-> Zeros(HASHLEN), haiku |-> Zeros(HAIKUSIZE), haiku2 |-> Zeros(16),
   bnum |-> Zeros(8), haiku1 |-> Zeros(16), diff |-> U32(0, 0)]

(* the first 312 bytes of a TRIGG_ALGO: the TRIGG chain *)
trigg_chain(Tc) ==
  Bytes(Tc.mroot \o Tc.haiku \o Tc.haiku2 \o Tc.bnum \o Tc.haiku1
          \o StoreLE32(Tc.diff), 0, 312)

(* trigg_solve(T, bt) *)
trigg_solve(Tc, trailer, seed) ==
  LET h == trigg_gen(seed)
  IN  [T |-> [Tc EXCEPT !.mroot = Bytes(trailer, OFF_MROOT, HASHLEN),
                        !.bnum = Bytes(trailer, OFF_BNUM, 8),
                        !.diff = LoadLE32(trailer, OFF_DIFFICULTY),
                        !.haiku2 = h.out],
       seed |-> h.seed]

(* trigg_generate expanding the haiku just drawn, not the one before it *)
trigg_generate_late(Tc, seed) ==
  LET h == trigg_gen(seed)
      T1 == [Tc EXCEPT !.haiku1 = Tc.haiku2, !.haiku2 = h.out,
                       !.haiku = trigg_expand(h.out)]
      hash == sha256(trigg_chain(T1))
      ev == trigg_eval(hash, uint8_t(Lo(T1.diff)))
  IN  [T |-> T1, seed |-> h.seed, ret |-> ev, wrote |-> ev = 1,
       out |-> T1.haiku1 \o T1.haiku2, chain |-> trigg_chain(T1),
       hash |-> hash]

(* trigg_generate(T, out) *)
trigg_generate(Tc, seed) ==
  LET h == trigg_gen(seed)
      T1 == [Tc EXCEPT !.haiku1 = Tc.haiku2, !.haiku2 = h.out,
                       !.haiku = trigg_expand(Tc.haiku2)]
      hash == sha256(trigg_chain(T1))
      ev == trigg_eval(hash, uint8_t(Lo(T1.diff)))
  IN  [T |-> T1, seed |-> h.seed, ret |-> ev, wrote |-> ev = 1,
       out |-> T1.haiku1 \o T1.haiku2, chain |-> trigg_chain(T1),
       hash |-> hash]

(* trigg_checkhash(bt, out) *)
trigg_checkhash(trailer) ==
  IF trigg_syntax(Bytes(trailer, OFF_NONCE, 16)) = 0
       \/ trigg_syntax(Bytes(trailer, OFF_NONCE + 16, 16)) = 0
    THEN [ret |-> 0, hashed |-> FALSE]
  ELSE LET T1 == [TriggZero EXCEPT
                    !.mroot = Bytes(trailer, OFF_MROOT, HASHLEN),
                    !.haiku2 = Bytes(trailer, OFF_NONCE + 16, 16),
                    !.bnum = Bytes(trailer, OFF_BNUM, 8),
                    !.haiku = trigg_expand(Bytes(trailer, OFF_NONCE, 16))]
           hash == sha256(trigg_chain(T1))
       IN  [ret |-> trigg_eval(hash, trailer[OFF_DIFFICULTY + 1]),
            hashed |-> TRUE, chain |-> trigg_chain(T1), hash |-> hash]

(* the end of peach_checkhash and of trigg_checkhash, r being what the     *)
(* call computed: `if(out != NULL) memcpy(out, hash, HASHLEN)` is reached  *)
(* once the hash is computed.  out holds the pointer p given and the bytes *)
(* mem of the caller's buffer; the result is out after the call.           *)
checkhash_out_onsuccess(r, out) ==
  IF r.hashed /\ r.ret = 1 /\ out.p # NULL THEN [out EXCEPT !.mem = r.hash] ELSE out

checkhash_out(r, out) ==
  IF r.hashed /\ out.p # NULL THEN [out EXCEPT !.mem = r.hash] ELSE out

(* what a call op of a *_checkhash function leaves: the value returned,    *)
(* whether a hash was computed and which, and the out buffer               *)
checkhash_call(op, r, out) ==
  [op |-> op, ret |-> r.ret, hashed |-> r.hashed,
   hash |-> IF r.hashed THEN r.hash ELSE <<>>,
   out |-> checkhash_out(r, out)]

-----------------------------------------------------------------------------
(* The inputs explored.                                                    *)

(* seeds given to trigg_srand *)
Seeds == {U32(4660, 22136)}

(* previous block hashes *)
Phash0 == Zeros(HASHLEN)
Phash1 == Force([i \in 1..HASHLEN |-> (37 * i) % 256])

(* a block trailer before it is solved: the nonce field is empty *)
MkTrailer(phash, difficulty) ==
  phash \o <<9, 0, 0, 0, 0, 0, 0, 0>> \o <<244, 1, 0, 0, 0, 0, 0, 0>>
    \o <<3, 0, 0, 0>> \o <<0, 0, 0, 0>> \o difficulty
    \o Force([i \in 1..HASHLEN |-> (11 * i + 5) % 256]) \o Zeros(HASHLEN)
    \o Zeros(4) \o Zeros(HASHLEN)

(* the trailers the Peach calls are explored with *)
Trailers == {MkTrailer(Phash0, <<0, 0, 0, 0>>), MkTrailer(Phash1, <<1, 0, 0, 0>>)}

(* two haiku as trigg_gen draws them from the initial seed *)
Haiku1 == trigg_gen(U32(0, 1))
Haiku2 == trigg_gen(Haiku1.seed)

(* nonces a caller may receive in a trailer: two valid haiku; the same     *)
(* with a word after the end of the primary, of the secondary haiku; an    *)
(* empty secondary haiku                                                   *)
TestNonces ==
  { Haiku1.out \o Haiku2.out,
    Poke(Haiku1.out, 15, <<77>>) \o Haiku2.out,
    Haiku1.out \o Poke(Haiku2.out, 14, <<200>>),
    Haiku1.out \o Zeros(16) }

(* haiku as trigg_gen draws them from a number of seeds *)
SyntaxSeeds == {U32(0, 1), U32(0, 2), U32(4660, 22136), U32(23331, 53031)}

(* token arrays given to trigg_syntax: haiku of trigg_gen, and the same    *)
(* with one token replaced                                                 *)
SyntaxInputs ==
  {trigg_gen(x).out : x \in SyntaxSeeds}
    \cup {Poke(trigg_gen(x).out, k, <<v>>) :
            x \in SyntaxSeeds, k \in 0..(MAXH - 1), v \in {0, 1, 5, 77, 200}}

(* hashes given to trigg_eval: z zero bytes, a byte b, and f in the rest *)
EvalHash(z, b, f) ==
  Force([i \in 1..HASHLEN |-> IF i <= z THEN 0 ELSE IF i = z + 1 THEN b ELSE f])

EvalHashes ==
  {EvalHash(z, b, f) : z \in {0, 1, 2, 30, 31},
                       b \in {0, 1, 2, 31, 64, 128, 255}, f \in {0, 255}}

(* difficulties handed to trigg_eval: every uint8_t, and 256 *)
EvalDiffs == 0..256

-----------------------------------------------------------------------------
(* The state machine.                                                      *)

NoCall == [op |-> "none"]
NoEmit == [ok |-> FALSE]

(* one worker and one thread: the state of the others is not in use *)
InitOthers ==
  /\ build = "heap"
  /\ W = <<>>
  /\ Trigg_rand_mutex = 0
  /\ thr = <<>>
  /\ hist = <<>>

Init ==
  /\ Trigg_seed = U32(0, 1)
  /\ bt \in Trailers
  /\ P = PeachZero
  /\ pstate = "uninit"
  /\ heap = <<>>
  /\ T = TriggZero
  /\ tstate = "uninit"
  /\ call = NoCall
  /\ emit = NoEmit
  /\ ngen = 0
  /\ arg = <<>>
  /\ ret = -1
  /\ InitOthers

(* trigg_srand(x), called before the contexts are first used *)
Srand ==
  \E x \in Seeds :
    /\ pstate = "uninit"
    /\ tstate = "uninit"
    /\ Trigg_seed' = x
    /\ call' = NoCall
    /\ UNCHANGED <<bt, P, pstate, heap, T, tstate, emit, ngen, arg, ret>>
    /\ UNCHANGED others

(* the caller stores a nonce it received in the trailer *)
ReceiveNonce ==
  \E n \in TestNonces :
    /\ bt' = Poke(bt, OFF_NONCE, n)
    /\ call' = NoCall
    /\ emit' = NoEmit
    /\ UNCHANGED <<Trigg_seed, P, pstate, heap, T, tstate, ngen, arg, ret>>
    /\ UNCHANGED others

(* peach_solve(&P, &bt) *)
PeachSolve ==
  \E mok \in BOOLEAN, cok \in BOOLEAN, g \in {0, 170} :
    /\ Len(heap) + (IF mok THEN 1 ELSE 0) + (IF cok THEN 1 ELSE 0) <= MaxBlocks
    /\ \E r \in {peach_solve(heap, bt, Trigg_seed, mok, cok, g)} :
           /\ P' = r.P
           /\ heap' = r.heap
           /\ Trigg_seed' = r.seed
           /\ pstate' = IF r.ret = 0 THEN "ready" ELSE "failed"
           /\ call' = [op |-> "peach_solve", ret |-> r.ret,
                       base |-> Len(heap), mok |-> mok, cok |-> cok]
    /\ emit' = NoEmit
    /\ UNCHANGED <<bt, T, tstate, ngen, arg, ret>>
    /\ UNCHANGED others

(* peach_generate(&P, bt.nonce) *)
PeachGenerate ==
  /\ P.bt # NULL
  /\ ngen < MaxGen
  /\ \E r \in {peach_generate(P, heap, bt, Trigg_seed)} :
         /\ P' = r.P
         /\ heap' = r.heap
         /\ Trigg_seed' = r.seed
         /\ bt' = IF r.wrote THEN Poke(bt, OFF_NONCE, r.out) ELSE bt
         /\ call' = [op |-> "peach_generate", ret |-> r.ret, path |-> r.path,
                     tiles |-> r.tiles, hash |-> r.hash, bt_hash |-> r.bt_hash,
                     nonce |-> r.out]
         /\ emit' = IF r.wrote
                      THEN [ok |-> TRUE, nonce |-> r.out, known |-> Bytes(bt, 0, 92),
                            bt_hash |-> r.bt_hash, path |-> r.path,
                            tiles |-> r.tiles, hash |-> r.hash]
                      ELSE emit
  /\ ngen' = ngen + 1
  /\ UNCHANGED <<pstate, T, tstate, arg, ret>>
  /\ UNCHANGED others

(* peach_free(&P) *)
PeachFree ==
  /\ pstate # "uninit"
  /\ \E r \in {peach_free(P, heap)} :
         /\ P' = r.P
         /\ heap' = r.heap
  /\ pstate' = "freed"
  /\ call' = [op |-> "peach_free", map |-> P.map, cache |-> P.cache,
              was |-> pstate]
  /\ UNCHANGED <<Trigg_seed, bt, T, tstate, emit, ngen, arg, ret>>
  /\ UNCHANGED others

(* peach_checkhash(&bt, out).  The call works on a context of its own,     *)
(* reads the trailer alone and leaves all of the program's state as it is, *)
(* so it is taken where the trailer may be new: before any context is in   *)
(* use, on the trailer as it was received, and after peach_generate.       *)
PeachCheck ==
  /\ \/ call.op = "none" /\ pstate = "uninit"
     \/ call.op = "peach_generate"
  /\ call' = [op |-> "peach_checkhash", res |-> peach_checkhash(bt)]
  /\ UNCHANGED <<Trigg_seed, bt, P, pstate, heap, T, tstate, emit, ngen, arg, ret>>
  /\ UNCHANGED others

(* trigg_solve(&T, &bt) *)
TriggSolve ==
  /\ tstate = "uninit"
  /\ \E r \in {trigg_solve(T, bt, Trigg_seed)} :
       /\ T' = r.T
       /\ Trigg_seed' = r.seed
  /\ tstate' = "ready"
  /\ call' = [op |-> "trigg_solve"]
  /\ emit' = NoEmit
  /\ UNCHANGED <<bt, P, pstate, heap, ngen, arg, ret>>
  /\ UNCHANGED others

(* trigg_generate(&T, bt.nonce) *)
TriggGenerate ==
  /\ tstate = "ready"
  /\ ngen < MaxGen
  /\ \E r \in {trigg_generate(T, Trigg_seed)} :
       /\ T' = r.T
       /\ Trigg_seed' = r.seed
       /\ bt' = IF r.wrote THEN Poke(bt, OFF_NONCE, r.out) ELSE bt
       /\ call' = [op |-> "trigg_generate", ret |-> r.ret]
       /\ emit' = IF r.wrote
                    THEN [ok |-> TRUE, nonce |-> r.out,
                          known |-> Bytes(bt, 0, 92),
                          chain |-> r.chain, hash |-> r.hash]
                    ELSE emit
  /\ ngen' = ngen + 1
  /\ UNCHANGED <<P, pstate, heap, tstate, arg, ret>>
  /\ UNCHANGED others

(* trigg_checkhash(&bt, out), taken like peach_checkhash where the         *)
(* trailer may be new                                                      *)
TriggCheck ==
  /\ call.op \in {"none", "trigg_generate"}
  /\ call' = [op |-> "trigg_checkhash", res |-> trigg_checkhash(bt)]
  /\ UNCHANGED <<Trigg_seed, bt, P, pstate, heap, T, tstate, emit, ngen, arg, ret>>
  /\ UNCHANGED others

(* trigg_syntax(arg) *)
Syntax ==
  /\ ret = -1
  /\ ret' = trigg_syntax(arg)
  /\ UNCHANGED <<Trigg_seed, bt, P, pstate, heap, T, tstate, call, emit, ngen, arg>>
  /\ UNCHANGED others

(* trigg_eval(arg.hash, arg.diff), the difficulty converted to the         *)
(* parameter's type                                                        *)
Eval ==
  /\ ret = -1
  /\ ret' = trigg_eval(arg.hash, uint8_t(arg.diff))
  /\ UNCHANGED <<Trigg_seed, bt, P, pstate, heap, T, tstate, call, emit, ngen, arg>>
  /\ UNCHANGED others

(* Peach: a miner solves, generates and frees; trailers are received and   *)
(* checked.                                                                *)
Next ==
  \/ ReceiveNonce
  \/ PeachSolve
  \/ PeachGenerate
  \/ PeachFree
  \/ PeachCheck

Spec == Init /\ [][Next]_vars

(* Trigg: the same with the Trigg calls *)
NextTrigg ==
  \/ Srand
  \/ ReceiveNonce
  \/ TriggSolve
  \/ TriggGenerate
  \/ TriggCheck

SpecTrigg == Init /\ [][NextTrigg]_vars

(* trigg_syntax applied to each of the token arrays SyntaxInputs *)
InitSyntax ==
  /\ Trigg_seed = U32(0, 1)
  /\ bt = MkTrailer(Phash0, <<0, 0, 0, 0>>)
  /\ P = PeachZero
  /\ pstate = "uninit"
  /\ heap = <<>>
  /\ T = TriggZero
  /\ tstate = "uninit"
  /\ call = NoCall
  /\ emit = NoEmit
  /\ ngen = 0
  /\ arg \in SyntaxInputs
  /\ ret = -1
  /\ InitOthers

NextSyntax == Syntax

SpecSyntax == InitSyntax /\ [][NextSyntax]_vars

(* trigg_eval applied to each hash of EvalHashes at each difficulty *)
InitEval ==
  /\ Trigg_seed = U32(0, 1)
  /\ bt = MkTrailer(Phash0, <<0, 0, 0, 0>>)
  /\ P = PeachZero
  /\ pstate = "uninit"
  /\ heap = <<>>
  /\ T = TriggZero
  /\ tstate = "uninit"
  /\ call = NoCall
  /\ emit = NoEmit
  /\ ngen = 0
  /\ arg \in [hash : EvalHashes, diff : EvalDiffs]
  /\ ret = -1
  /\ InitOthers

NextEval == Eval

SpecEval == InitEval /\ [][NextEval]_vars

(* Two workers of one process, each with a PEACH_ALGO context and a        *)
(* trailer of its own, in either build.  A call of a worker is one step.   *)
Workers == {1, 2}

InitWorkers ==
  /\ Trigg_seed = U32(0, 1)
  /\ bt = MkTrailer(Phash0, <<0, 0, 0, 0>>)
  /\ P = PeachZero
  /\ pstate = "uninit"
  /\ build \in {"heap", "static"}
  /\ heap = IF build = "static" THEN StaticMem ELSE <<>>
  /\ T = TriggZero
  /\ tstate = "uninit"
  /\ call = NoCall
  /\ emit = NoEmit
  /\ ngen = 0
  /\ arg = <<>>
  /\ ret = -1
  /\ W \in [Workers -> [P : {PeachZero}, bt : Trailers, st : {"uninit"}]]
  /\ Trigg_rand_mutex = 0
  /\ thr = <<>>
  /\ hist = <<>>

(* worker w: peach_solve(&P, &bt); malloc succeeds and hands out memory    *)
(* that holds the bytes g                                                  *)
WorkerSolve(w) ==
  /\ W[w].st = "uninit"
  /\ \E g \in {170} :
       \E r \in {IF build = "static"
                   THEN peach_solve_static(heap, W[w].bt, Trigg_seed)
                   ELSE peach_solve(heap, W[w].bt, Trigg_seed, TRUE, TRUE, g)} :
         /\ W' = [W EXCEPT ![w].P = r.P, ![w].st = "ready"]
         /\ heap' = r.heap
         /\ Trigg_seed' = r.seed
         /\ call' = [op |-> "peach_solve", w |-> w, ret |-> r.ret]
  /\ UNCHANGED <<bt, P, pstate, T, tstate, emit, ngen, arg, ret>>
  /\ UNCHANGED <<build, Trigg_rand_mutex, thr, hist>>

(* worker w: peach_generate(&P, bt.nonce) *)
WorkerGenerate(w) ==
  /\ W[w].st = "ready"
  /\ ngen < MaxGen
  /\ \E r \in {peach_generate(W[w].P, heap, W[w].bt, Trigg_seed)} :
       /\ W' = [W EXCEPT ![w].P = r.P,
                         ![w].bt = IF r.wrote THEN Poke(@, OFF_NONCE, r.out) ELSE @]
       /\ heap' = r.heap
       /\ Trigg_seed' = r.seed
       /\ call' = [op |-> "peach_generate", w |-> w, ret |-> r.ret,
                   path |-> r.path]
  /\ ngen' = ngen + 1
  /\ UNCHANGED <<bt, P, pstate, T, tstate, emit, arg, ret>>
  /\ UNCHANGED <<build, Trigg_rand_mutex, thr, hist>>

(* worker w: peach_free(&P) *)
WorkerFree(w) ==
  /\ W[w].st = "ready"
  /\ \E r \in {IF build = "static"
                 THEN peach_free_static(W[w].P, heap)
                 ELSE peach_free(W[w].P, heap)} :
       /\ W' = [W EXCEPT ![w].P = r.P, ![w].st = "freed"]
       /\ heap' = r.heap
  /\ call' = [op |-> "peach_free", w |-> w]
  /\ UNCHANGED <<Trigg_seed, bt, P, pstate, T, tstate, emit, ngen, arg, ret>>
  /\ UNCHANGED <<build, Trigg_rand_mutex, thr, hist>>

NextWorkers ==
  \E w \in Workers :
    \/ WorkerSolve(w)
    \/ WorkerGenerate(w)
    \/ WorkerFree(w)

SpecWorkers == InitWorkers /\ [][NextWorkers]_vars

(* Threads of one process calling trigg_rand and trigg_srand in the        *)
(* thread-safe build.  A step is one access to the shared seed or to the   *)
(* mutex; each thread makes up to MaxCalls calls.                          *)
Threads == 1..NThreads

ThreadIdle ==
  [pc |-> "idle", op |-> "none", x |-> U32(0, 0), tmp |-> U32(0, 0), r |-> -1,
   k |-> 0, base |-> U32(0, 0), calls |-> 0]

InitRand ==
  /\ Trigg_seed = U32(0, 1)
  /\ bt = MkTrailer(Phash0, <<0, 0, 0, 0>>)
  /\ P = PeachZero
  /\ pstate = "uninit"
  /\ heap = <<>>
  /\ T = TriggZero
  /\ tstate = "uninit"
  /\ call = NoCall
  /\ emit = NoEmit
  /\ ngen = 0
  /\ arg = <<>>
  /\ ret = -1
  /\ build = "heap"
  /\ W = <<>>
  /\ Trigg_rand_mutex = 0
  /\ thr = [t \in Threads |-> ThreadIdle]
  /\ hist = [base |-> U32(0, 1), n |-> 0]

(* what the steps of the threads leave alone *)
single == <<bt, P, pstate, heap, T, tstate, call, emit, ngen, arg, ret, build, W>>

(* thread t calls trigg_rand() *)
RandCall(t) ==
  /\ thr[t].pc = "idle"
  /\ thr[t].calls < MaxCalls
  /\ thr' = [thr EXCEPT ![t].pc = "lock", ![t].op = "trigg_rand",
                        ![t].r = -1, ![t].calls = @ + 1]
  /\ UNCHANGED <<Trigg_seed, Trigg_rand_mutex, hist>>
  /\ UNCHANGED single

(* thread t calls trigg_srand(x) *)
SrandCall(t) ==
  \E x \in Seeds :
    /\ thr[t].pc = "idle"
    /\ thr[t].calls < MaxCalls
    /\ thr' = [thr EXCEPT ![t].pc = "lock", ![t].op = "trigg_srand",
                          ![t].x = x, ![t].r = -1, ![t].calls = @ + 1]
    /\ UNCHANGED <<Trigg_seed, Trigg_rand_mutex, hist>>
    /\ UNCHANGED single

(* trigg_rand_lock(); *)
RandLock(t) ==
  /\ thr[t].pc = "lock"
  /\ \E l \in {trigg_rand_lock(Trigg_rand_mutex, t)} :
       /\ l.ok
       /\ Trigg_rand_mutex' = l.m
  /\ thr' = [thr EXCEPT ![t].pc = IF thr[t].op = "trigg_rand" THEN "load" ELSE "set"]
  /\ UNCHANGED <<Trigg_seed, hist>>
  /\ UNCHANGED single

(* Trigg_seed = x; *)
SrandStore(t) ==
  /\ thr[t].pc = "set"
  /\ Trigg_seed' = thr[t].x
  /\ hist' = [base |-> thr[t].x, n |-> 0]
  /\ thr' = [thr EXCEPT ![t].pc = "unlock"]
  /\ UNCHANGED Trigg_rand_mutex
  /\ UNCHANGED single

(* Trigg_seed = Trigg_seed * 69069L + 262145L; the read of the seed *)
RandLoad(t) ==
  /\ thr[t].pc = "load"
  /\ thr' = [thr EXCEPT ![t].pc = "store", ![t].tmp = Trigg_seed]
  /\ UNCHANGED <<Trigg_seed, Trigg_rand_mutex, hist>>
  /\ UNCHANGED single

(* Trigg_seed = Trigg_seed * 69069L + 262145L; the write of the seed.  The *)
(* update is the hist.n-th since the seed was last set.                    *)
RandStore(t) ==
  /\ thr[t].pc = "store"
  /\ Trigg_seed' = trigg_rand_step(thr[t].tmp)
  /\ hist' = [hist EXCEPT !.n = @ + 1]
  /\ thr' = [thr EXCEPT ![t].pc = "shift", ![t].k = hist.n + 1,
                        ![t].base = hist.base]
  /\ UNCHANGED Trigg_rand_mutex
  /\ UNCHANGED single

(* r = Trigg_seed >> 16; *)
RandShift(t) ==
  /\ thr[t].pc = "shift"
  /\ thr' = [thr EXCEPT ![t].pc = "unlock", ![t].r = Hi(Trigg_seed)]
  /\ UNCHANGED <<Trigg_seed, Trigg_rand_mutex, hist>>
  /\ UNCHANGED single

(* trigg_rand_unlock(); return *)
RandUnlock(t) ==
  /\ thr[t].pc = "unlock"
  /\ Trigg_rand_mutex' = trigg_rand_unlock(Trigg_rand_mutex)
  /\ thr' = [thr EXCEPT ![t].pc = "idle"]
  /\ UNCHANGED <<Trigg_seed, hist>>
  /\ UNCHANGED single

NextRand ==
  \E t \in Threads :
    \/ RandCall(t)
    \/ SrandCall(t)
    \/ RandLock(t)
    \/ SrandStore(t)
    \/ RandLoad(t)
    \/ RandStore(t)
    \/ RandShift(t)
    \/ RandUnlock(t)

SpecRand == InitRand /\ [][NextRand]_vars

(* peach_checkhash(&arg.bt, arg.out) and trigg_checkhash(&arg.bt, arg.out) *)
(* on a trailer of a verifier, called up to MaxChecks times in a process   *)
(* where worker 1 solves and generates for a trailer of its own, drawing   *)
(* from the generator.  ret holds what the calls left, in order.           *)
CheckTrailers ==
  { Poke(MkTrailer(Phash0, <<0, 0, 0, 0>>), OFF_NONCE, n) : n \in TestNonces }
    \cup { Poke(MkTrailer(Phash1, <<200, 0, 0, 0>>), OFF_NONCE, Haiku1.out \o Haiku2.out) }

(* the out argument: no buffer, or a buffer the caller has filled *)
OutBuffers ==
  { [p |-> NULL, mem |-> Force([i \in 1..HASHLEN |-> 85])],
    [p |-> 1, mem |-> Force([i \in 1..HASHLEN |-> 85])] }

InitCheck ==
  /\ Trigg_seed = U32(0, 1)
  /\ bt = MkTrailer(Phash0, <<0, 0, 0, 0>>)
  /\ P = PeachZero
  /\ pstate = "uninit"
  /\ heap = <<>>
  /\ T = TriggZero
  /\ tstate = "uninit"
  /\ call = NoCall
  /\ emit = NoEmit
  /\ ngen = 0
  /\ arg \in [bt : CheckTrailers, out : OutBuffers]
  /\ ret = <<>>
  /\ build = "heap"
  /\ W = [w \in Workers |->
            [P |-> PeachZero, bt |-> MkTrailer(Phash0, <<0, 0, 0, 0>>),
             st |-> "uninit"]]
  /\ Trigg_rand_mutex = 0
  /\ thr = <<>>
  /\ hist = <<>>

(* peach_checkhash working on worker 1's context in place of its own *)
CheckPeach_shared ==
  /\ Len(ret) < MaxChecks
  /\ \E r \in {IF trigg_syntax(Bytes(arg.bt, OFF_NONCE, 16)) = 0
                    \/ trigg_syntax(Bytes(arg.bt, OFF_NONCE + 16, 16)) = 0
                 THEN [ret |-> 0, hashed |-> FALSE, heap |-> heap]
                 ELSE peach_hash(W[1].P, heap, arg.bt, Bytes(arg.bt, OFF_NONCE, 32),
                                 sha256(Bytes(arg.bt, 0, 124)),
                                 arg.bt[OFF_DIFFICULTY + 1])} :
       /\ ret' = Append(ret, checkhash_call("peach_checkhash", r, arg.out))
       /\ heap' = r.heap
  /\ call' = [op |-> "peach_checkhash"]
  /\ UNCHANGED <<Trigg_seed, bt, P, pstate, T, tstate, emit, ngen, arg>>
  /\ UNCHANGED others

(* peach_checkhash(&arg.bt, arg.out) *)
CheckPeach ==
  /\ Len(ret) < MaxChecks
  /\ ret' = Append(ret, checkhash_call("peach_checkhash",
                                       peach_checkhash(arg.bt), arg.out))
  /\ call' = [op |-> "peach_checkhash"]
  /\ UNCHANGED <<Trigg_seed, bt, P, pstate, heap, T, tstate, emit, ngen, arg>>
  /\ UNCHANGED others

(* trigg_checkhash(&arg.bt, arg.out) *)
CheckTrigg ==
  /\ Len(ret) < MaxChecks
  /\ ret' = Append(ret, checkhash_call("trigg_checkhash",
                                       trigg_checkhash(arg.bt), arg.out))
  /\ call' = [op |-> "trigg_checkhash"]
  /\ UNCHANGED <<Trigg_seed, bt, P, pstate, heap, T, tstate, emit, ngen, arg>>
  /\ UNCHANGED others

NextCheck ==
  \/ WorkerSolve(1)
  \/ WorkerGenerate(1)
  \/ CheckPeach
  \/ CheckTrigg

SpecCheck == InitCheck /\ [][NextCheck]_vars

(* peach_nighthash(arg.in, inlen, arg.index, arg.hashindex, 0, out) on     *)
(* buffers of every length up to MaxLen, with lanes that are and are not   *)
(* NaN, and on the PEACH_NEXT bytes peach_next puts together               *)
NightBuffer(p, n) ==
  Force([i \in 1..n |-> IF p = 0 THEN 255 ELSE (37 * p * i + p) % 256])

NightInputs ==
  [in : {NightBuffer(p, n) : p \in {0, 1, 7, 100}, n \in 0..MaxLen},
   index : {0, PEACH_MAP - 1}, hashindex : {0}]
    \cup
  [in : {(Haiku1.out \o Haiku2.out) \o StoreLE32(ToU32(i))
           \o peach_gen_tile(Phash1, i, Zeros(PEACH_TILE)) : i \in {1, 2}},
   index : {1, 2}, hashindex : {0}]

InitNight ==
  /\ Trigg_seed = U32(0, 1)
  /\ bt = MkTrailer(Phash0, <<0, 0, 0, 0>>)
  /\ P = PeachZero
  /\ pstate = "uninit"
  /\ heap = <<>>
  /\ T = TriggZero
  /\ tstate = "uninit"
  /\ call = NoCall
  /\ emit = NoEmit
  /\ ngen = 0
  /\ arg \in NightInputs
  /\ ret = -1
  /\ InitOthers

Nighthash ==
  /\ call.op = "none"
  /\ ret' = peach_nighthash(arg.in, Len(arg.in), arg.index, arg.hashindex, 0,
                            Zeros(HASHLEN))
  /\ call' = [op |-> "peach_nighthash"]
  /\ UNCHANGED <<Trigg_seed, bt, P, pstate, heap, T, tstate, emit, ngen, arg>>
  /\ UNCHANGED others

NextNight == Nighthash

SpecNight == InitNight /\ [][NextNight]_vars

(* trigg_gen(arg) from each of the seeds GenSeeds, then                    *)
(* trigg_expand(arg, ret) of the haiku it wrote                            *)
GenSeeds == {U32(h, l) : h \in {0, 4660}, l \in 1..MaxSeeds}

InitHaiku ==
  /\ Trigg_seed \in GenSeeds
  /\ bt = MkTrailer(Phash0, <<0, 0, 0, 0>>)
  /\ P = PeachZero
  /\ pstate = "uninit"
  /\ heap = <<>>
  /\ T = TriggZero
  /\ tstate = "uninit"
  /\ call = NoCall
  /\ emit = NoEmit
  /\ ngen = 0
  /\ arg = <<>>
  /\ ret = <<>>
  /\ InitOthers

(* trigg_gen(arg) *)
Gen ==
  /\ call.op = "none"
  /\ \E r \in {trigg_gen(Trigg_seed)} :
       /\ arg' = r.out
       /\ Trigg_seed' = r.seed
  /\ call' = [op |-> "trigg_gen", seed |-> Trigg_seed]
  /\ UNCHANGED <<bt, P, pstate, heap, T, tstate, emit, ngen, ret>>
  /\ UNCHANGED others

(* trigg_expand(arg, ret) *)
Expand ==
  /\ call.op = "trigg_gen"
  /\ ret' = trigg_expand(arg)
  /\ call' = [op |-> "trigg_expand"]
  /\ UNCHANGED <<Trigg_seed, bt, P, pstate, heap, T, tstate, emit, ngen, arg>>
  /\ UNCHANGED others

NextHaiku ==
  \/ Gen
  \/ Expand

SpecHaiku == InitHaiku /\ [][NextHaiku]_vars

(* Peach and Trigg: a miner solves and generates with a context of each *)
NextChain ==
  \/ PeachSolve
  \/ PeachGenerate
  \/ TriggSolve
  \/ TriggGenerate

SpecChain == Init /\ [][NextChain]_vars

(* one transformation of peach_dmemtx, case 0 or case 2 of its switch, on  *)
(* buffers of every length up to MaxLen                                    *)
InitMemtx ==
  /\ Trigg_seed = U32(0, 1)
  /\ bt = MkTrailer(Phash0, <<0, 0, 0, 0>>)
  /\ P = PeachZero
  /\ pstate = "uninit"
  /\ heap = <<>>
  /\ T = TriggZero
  /\ tstate = "uninit"
  /\ call = NoCall
  /\ emit = NoEmit
  /\ ngen = 0
  /\ arg \in [in : {NightBuffer(p, n) : p \in {0, 1, 7, 100}, n \in 0..MaxLen},
               t : {0, 2}]
  /\ ret = <<>>
  /\ InitOthers

Memtx ==
  /\ call.op = "none"
  /\ ret' = peach_dmemtx_case(arg.in, Len(arg.in), arg.t, 0)
  /\ call' = [op |-> "peach_dmemtx"]
  /\ UNCHANGED <<Trigg_seed, bt, P, pstate, heap, T, tstate, emit, ngen, arg>>
  /\ UNCHANGED others

NextMemtx == Memtx

SpecMemtx == InitMemtx /\ [][NextMemtx]_vars

(* two invocations of peach_gen for the index arg.index: one by a solver   *)
(* whose map was left holding the byte arg.g, one by a verifier whose      *)
(* scratch tile holds arg.dirt, on trailers arg.a and arg.b                *)
TileTrailers ==
  {MkTrailer(Phash0, <<0, 0, 0, 0>>),
   Poke(MkTrailer(Phash0, <<1, 0, 0, 0>>), OFF_NONCE, Haiku1.out \o Haiku2.out),
   MkTrailer(Phash1, <<1, 0, 0, 0>>)}

InitTile ==
  /\ Trigg_seed \in {U32(0, 1), Haiku2.seed}
  /\ bt = MkTrailer(Phash0, <<0, 0, 0, 0>>)
  /\ P = PeachZero
  /\ pstate = "uninit"
  /\ heap = <<>>
  /\ T = TriggZero
  /\ tstate = "uninit"
  /\ call = NoCall
  /\ emit = NoEmit
  /\ ngen = 0
  /\ arg \in [index : 0..(PEACH_MAP - 1), a : TileTrailers, b : TileTrailers,
               g : {0, 170}, dirt : {Zeros(PEACH_TILE), NightBuffer(7, PEACH_TILE)}]
  /\ ret = <<>>
  /\ InitOthers

TileGen ==
  /\ call.op = "none"
  /\ \E m \in {malloc(<<>>, PEACH_SIZE, TRUE, arg.g)} :
     \E c \in {malloc(m.heap, PEACH_MAP, TRUE, arg.g)} :
     \E a \in {peach_gen([PeachZero EXCEPT !.bt = BtPtr, !.map = m.p,
                                           !.cache = c.p,
                                           !.nonce = Bytes(arg.a, OFF_NONCE, HASHLEN)],
                          ZeroQwords(c.heap, c.p, Shr(PEACH_MAP, 3)),
                          arg.a, arg.index)} :
     \E b \in {peach_gen([PeachZero EXCEPT !.bt = BtPtr, !.tile = arg.dirt],
                          <<>>, arg.b, arg.index)} :
       /\ ret' = [a |-> a.tile, b |-> b.tile,
                  slot |-> Bytes(Mem(a.heap, m.p), arg.index * PEACH_TILE, PEACH_TILE),
                  tile |-> b.P.tile]
       /\ heap' = a.heap
  /\ call' = [op |-> "peach_gen"]
  /\ UNCHANGED <<Trigg_seed, bt, P, pstate, T, tstate, emit, ngen, arg>>
  /\ UNCHANGED others

NextTile == TileGen

SpecTile == InitTile /\ [][NextTile]_vars

(* the offset of the first zero byte of the haiku np from offset j on,     *)
(* MAXH when it has none                                                   *)
RECURSIVE HaikuEnd(_, _)
HaikuEnd(np, j) ==
  IF j >= MAXH \/ np[j + 1] = 0 THEN j ELSE HaikuEnd(np, j + 1)

(* the primary haiku arg.np with the byte at arg.pos, or every byte from   *)
(* arg.pos on, replaced by arg.v                                           *)
HaikuTail(a) ==
  Force([i \in 1..MAXH |->
           IF i - 1 = a.pos \/ (a.all /\ i - 1 > a.pos) THEN a.v ELSE a.np[i]])

(* trigg_checkhash on two trailers that differ in bytes of the primary     *)
(* haiku after its first zero byte                                         *)
InitTail ==
  /\ Trigg_seed = U32(0, 1)
  /\ bt \in {MkTrailer(Phash0, <<0, 0, 0, 0>>), MkTrailer(Phash1, <<1, 0, 0, 0>>)}
  /\ P = PeachZero
  /\ pstate = "uninit"
  /\ heap = <<>>
  /\ T = TriggZero
  /\ tstate = "uninit"
  /\ call = NoCall
  /\ emit = NoEmit
  /\ ngen = 0
  /\ arg \in {a \in [np : {trigg_gen(x).out : x \in SyntaxSeeds}
                           \cup {Poke(trigg_gen(x).out, k, <<0>>) :
                                   x \in SyntaxSeeds, k \in 0..(MAXH - 1)},
                      pos : 0..(MAXH - 1), v : {1, 200}, all : BOOLEAN] :
                 a.pos > HaikuEnd(a.np, 0)}
  /\ ret = <<>>
  /\ InitOthers

CheckTail ==
  /\ call.op = "none"
  /\ ret' = <<checkhash_call("trigg_checkhash",
                 trigg_checkhash(Poke(bt, OFF_NONCE, arg.np \o Haiku2.out)),
                 [p |-> 1, mem |-> Zeros(HASHLEN)]),
              checkhash_call("trigg_checkhash",
                 trigg_checkhash(Poke(bt, OFF_NONCE, HaikuTail(arg) \o Haiku2.out)),
                 [p |-> 1, mem |-> Zeros(HASHLEN)])>>
  /\ call' = [op |-> "trigg_checkhash"]
  /\ UNCHANGED <<Trigg_seed, bt, P, pstate, heap, T, tstate, emit, ngen, arg>>
  /\ UNCHANGED others

NextTail == CheckTail

SpecTail == InitTail /\ [][NextTail]_vars

(* trigg_gen(arg) taken one statement at a time: call holds the frame f    *)
(* drawn and the slot j, arg the bytes written to out so far.  The thread  *)
(* that called trigg_gen goes on running; in this build trigg_rand takes   *)
(* no lock, so no step waits.                                              *)
InitGenSteps ==
  /\ Trigg_seed \in GenSeeds \cup {U32(0, 0)}
  /\ bt = MkTrailer(Phash0, <<0, 0, 0, 0>>)
  /\ P = PeachZero
  /\ pstate = "uninit"
  /\ heap = <<>>
  /\ T = TriggZero
  /\ tstate = "uninit"
  /\ call = NoCall
  /\ emit = NoEmit
  /\ ngen = 0
  /\ arg = <<>>
  /\ ret = -1
  /\ InitOthers

(* fp = &Frame[trigg_rand() % NFRAMES][0] *)
GenFrame ==
  /\ call.op = "none"
  /\ \E d \in {trigg_rand(Trigg_seed)} :
       /\ Trigg_seed' = d.seed
       /\ call' = [op |-> "trigg_gen", f |-> (d.r % NFRAMES) + 1, j |-> 0]
  /\ UNCHANGED <<bt, P, pstate, heap, T, tstate, emit, ngen, arg, ret>>
  /\ UNCHANGED others

(* a zero slot of the frame: 0 is written to out and the loop continues *)
GenZero ==
  /\ call.op = "trigg_gen"
  /\ call.j < MAXH
  /\ Frame[call.f][call.j + 1] = 0
  /\ arg' = Append(arg, 0)
  /\ call' = [call EXCEPT !.j = @ + 1]
  /\ UNCHANGED <<Trigg_seed, bt, P, pstate, heap, T, tstate, emit, ngen, ret>>
  /\ UNCHANGED others

(* a literal slot: widx is the low byte of the slot *)
GenLiteral ==
  /\ call.op = "trigg_gen"
  /\ call.j < MAXH
  /\ Frame[call.f][call.j + 1] # 0
  /\ BitAnd(Frame[call.f][call.j + 1], F_XLIT) # 0
  /\ arg' = Append(arg, BitAnd(Frame[call.f][call.j + 1], 255))
  /\ call' = [call EXCEPT !.j = @ + 1]
  /\ UNCHANGED <<Trigg_seed, bt, P, pstate, heap, T, tstate, emit, ngen, ret>>
  /\ UNCHANGED others

(* one turn of for(;;): widx = trigg_rand() & (MAXDICT - 1), and the break *)
(* when the word suits the slot                                            *)
GenDraw ==
  /\ call.op = "trigg_gen"
  /\ call.j < MAXH
  /\ Frame[call.f][call.j + 1] # 0
  /\ BitAnd(Frame[call.f][call.j + 1], F_XLIT) = 0
  /\ \E d \in {trigg_rand(Trigg_seed)} :
       /\ Trigg_seed' = d.seed
       /\ IF BitAnd(Fe(BitAnd(d.r, MAXDICT - 1)), Frame[call.f][call.j + 1]) # 0
            THEN /\ arg' = Append(arg, BitAnd(d.r, MAXDICT - 1) % 256)
                 /\ call' = [call EXCEPT !.j = @ + 1]
            ELSE UNCHANGED <<arg, call>>
  /\ UNCHANGED <<bt, P, pstate, heap, T, tstate, emit, ngen, ret>>
  /\ UNCHANGED others

(* return out *)
GenReturn ==
  /\ call.op = "trigg_gen"
  /\ call.j >= MAXH
  /\ call' = [op |-> "trigg_gen_done", f |-> call.f, j |-> call.j]
  /\ UNCHANGED <<Trigg_seed, bt, P, pstate, heap, T, tstate, emit, ngen, arg, ret>>
  /\ UNCHANGED others

NextGenSteps == GenFrame \/ GenZero \/ GenLiteral \/ GenDraw \/ GenReturn

SpecGenSteps == InitGenSteps /\ [][NextGenSteps]_vars /\ WF_vars(NextGenSteps)

-----------------------------------------------------------------------------
(* The properties.                                                         *)

(* the nonce field of the trailer and its two haiku *)
BtNonce == Bytes(bt, OFF_NONCE, 32)
BtPrimary == Bytes(bt, OFF_NONCE, 16)
BtSecondary == Bytes(bt, OFF_NONCE + 16, 16)

(* the trailer holds the nonce the last successful generate call emitted,  *)
(* and the 92 bytes before it are as they were then                        *)
HoldsEmitted ==
  /\ emit.ok
  /\ BtNonce = emit.nonce
  /\ Bytes(bt, 0, 92) = emit.known

(* C1: Peach soundness.  When peach_checkhash runs on the trailer that     *)
(* holds a nonce peach_generate emitted for it, it returns 1, and it has   *)
(* computed the same hash of the trailer, the same 9 indices and 9 tiles   *)
(* and the same final hash as peach_generate; both haiku of the nonce pass *)
(* trigg_syntax.                                                           *)
C1_PeachSound ==
  (call.op = "peach_checkhash" /\ HoldsEmitted)
    => /\ call.res.hashed
       /\ call.res.ret = 1
       /\ call.res.bt_hash = emit.bt_hash
       /\ call.res.path = emit.path
       /\ Len(call.res.path) = PEACH_JUMP + 1
       /\ call.res.tiles = emit.tiles
       /\ call.res.hash = emit.hash
       /\ trigg_syntax(BtPrimary) = 1
       /\ trigg_syntax(BtSecondary) = 1

(* a nonce peach_generate emitted at difficulty 1 was checked and accepted *)
C1_Witness ==
  /\ call.op = "peach_checkhash"
  /\ HoldsEmitted
  /\ call.res.ret = 1
  /\ pstate = "ready"
  /\ ngen >= 1
  /\ bt[OFF_DIFFICULTY + 1] = 1

(* C2: Trigg soundness.  When trigg_checkhash runs on the trailer that     *)
(* holds a nonce trigg_generate emitted for it, it returns 1, having       *)
(* hashed the same 312-byte chain, which is mroot, the expanded primary    *)
(* haiku, the secondary haiku and bnum; both haiku pass trigg_syntax.      *)
C2_TriggSound ==
  (call.op = "trigg_checkhash" /\ HoldsEmitted)
    => /\ call.res.hashed
       /\ call.res.ret = 1
       /\ call.res.chain = emit.chain
       /\ Len(call.res.chain) = 312
       /\ call.res.chain = Bytes(bt, OFF_MROOT, HASHLEN)
                             \o trigg_expand(BtPrimary) \o BtSecondary
                             \o Bytes(bt, OFF_BNUM, 8)
       /\ call.res.hash = emit.hash
       /\ trigg_syntax(BtPrimary) = 1
       /\ trigg_syntax(BtSecondary) = 1

(* the nonce of a second trigg_generate call was checked and accepted *)
C2_Witness ==
  /\ call.op = "trigg_checkhash"
  /\ HoldsEmitted
  /\ call.res.ret = 1
  /\ tstate = "ready"
  /\ ngen = 2

(* C3: trigg_syntax returns 1 for a token array exactly if trigg_gen can   *)
(* produce it: some frame matches it in all 16 slots, every zero slot of   *)
(* the frame holding token 0.                                              *)
C3_SyntaxIffProducible ==
  ret # -1 => (ret = 1 <=> trigg_gen_can(arg))

(* C4: peach_check returns 1 for a trailer exactly if its nonce is one     *)
(* peach_generate could have emitted for it: two haiku trigg_gen can       *)
(* produce, with which peach_generate evaluates its final hash as solved.  *)
C4_CheckIffEmittable ==
  call.op = "peach_checkhash"
    => (call.res.ret = 1
          <=> /\ trigg_gen_can(BtPrimary)
              /\ trigg_gen_can(BtSecondary)
              /\ peach_generate_hash(
                   [PeachZero EXCEPT !.bt = BtPtr, !.nonce = BtNonce,
                                     !.diff = LoadLE32(bt, OFF_DIFFICULTY)],
                   <<>>, bt).ret = 1)

(* bit m of the hash, counted from the most significant bit of byte 0 *)
HashBit(h, m) == (h[(m \div 8) + 1] \div Pow2(7 - (m % 8))) % 2

(* the hash read big-endian has at least d leading zero bits *)
LeadingZeroBits(h, d) == \A m \in 0..(d - 1) : HashBit(h, m) = 0

(* C5: for a difficulty d in 0..255, trigg_eval(h, d) returns 1 exactly if *)
(* h, read big-endian, has at least d leading zero bits.                   *)
C5_EvalLeadingZeros ==
  (ret # -1 /\ arg.diff <= 255)
    => (ret = 1 <=> LeadingZeroBits(arg.hash, arg.diff))

(* the hash 00 00 1F FF .. was accepted at difficulty 19 *)
C5_Witness ==
  /\ ret = 1
  /\ arg.diff = 19
  /\ arg.hash = EvalHash(2, 31, 255)

(* C6 as stated: at difficulty 256 only the all-zero hash is accepted.     *)
C6_Only256Zero ==
  (ret # -1 /\ arg.diff = 256) => (ret = 1 <=> arg.hash = Zeros(HASHLEN))

(* C6 as amended: a difficulty of 256 reaches trigg_eval as 0 and every    *)
(* hash is accepted; at 255, the highest difficulty of the 8-bit           *)
(* parameter, exactly the hashes with 255 leading zero bits are accepted:  *)
(* 31 zero bytes and a last byte of 0 or 1.                                *)
C6_Diff256IsZero ==
  ret # -1
    => /\ arg.diff = 256 => ret = 1
       /\ arg.diff = 255
            => (ret = 1 <=> /\ Bytes(arg.hash, 0, 31) = Zeros(31)
                            /\ arg.hash[32] <= 1)

(* a hash that is not zero was accepted at difficulty 256 *)
C6_Witness ==
  /\ ret = 1
  /\ arg.diff = 256
  /\ arg.hash = EvalHash(0, 255, 255)

(* the blocks the last peach_solve call allocated *)
SolveBlocks == (call.base + 1)..Len(heap)

(* C7: when an allocation of peach_solve fails, it returns non-zero, the   *)
(* buffer it did get is released exactly once, and P.map and P.cache are   *)
(* both null.                                                              *)
C7_SolveFailure ==
  call.op = "peach_solve"
    => /\ (call.ret # 0) <=> ~(call.mok /\ call.cok)
       /\ call.ret # 0
            => /\ P.map = NULL
               /\ P.cache = NULL
               /\ Cardinality(SolveBlocks)
                    = (IF call.mok THEN 1 ELSE 0) + (IF call.cok THEN 1 ELSE 0)
               /\ \A b \in SolveBlocks :
                    ~heap[b].live /\ heap[b].frees = 1

(* peach_solve got the map, not the cache, and failed *)
C7_Witness ==
  /\ call.op = "peach_solve"
  /\ call.ret # 0
  /\ call.mok
  /\ ~call.cok
  /\ \E b \in SolveBlocks : heap[b].size = PEACH_SIZE /\ heap[b].frees = 1

(* C8: after peach_free the buffers the context held are released and      *)
(* P.map and P.cache are null; no buffer is ever released twice.           *)
C8_FreeOnce ==
  /\ \A b \in 1..Len(heap) :
       /\ heap[b].frees <= 1
       /\ heap[b].live <=> heap[b].frees = 0
  /\ call.op = "peach_free"
       => /\ P.map = NULL
          /\ P.cache = NULL
          /\ call.map # NULL => ~heap[call.map].live
          /\ call.cache # NULL => ~heap[call.cache].live

(* peach_free was called on a context it had freed before, whose map and   *)
(* cache it had released                                                   *)
C8_Witness ==
  /\ call.op = "peach_free"
  /\ call.was = "freed"
  /\ call.map = NULL
  /\ \E b \in 1..Len(heap) : heap[b].size = PEACH_SIZE /\ heap[b].frees = 1
  /\ \E b \in 1..Len(heap) : heap[b].size = PEACH_MAP /\ heap[b].frees = 1

(* the presence byte and the map region of tile i in the heap hp *)
Presence(hp, i) == Mem(hp, P.cache)[i + 1]
Region(hp, i) == Bytes(Mem(hp, P.map), i * PEACH_TILE, PEACH_TILE)

Tiles == 0..(PEACH_MAP - 1)

(* C9: in a context between peach_solve and peach_free every presence byte *)
(* is 0 or 1, and the map region of a tile marked present is the tile      *)
(* generated for its index from the trailer's previous block hash.         *)
C9_CacheHoldsTiles ==
  pstate = "ready"
    => \A i \in Tiles :
         /\ Presence(heap, i) \in {0, 1}
         /\ Presence(heap, i) = 1
              => Region(heap, i)
                   = peach_gen_tile(Bytes(bt, OFF_PHASH, HASHLEN), i,
                                    Zeros(PEACH_TILE))

(* after two peach_generate calls some tiles are present, not all *)
C9_Witness ==
  /\ pstate = "ready"
  /\ ngen = 2
  /\ Cardinality({i \in Tiles : Presence(heap, i) = 1}) >= 3
  /\ \E i \in Tiles : Presence(heap, i) = 0

(* a step that leaves the context its map and cache *)
KeepsMap ==
  /\ pstate = "ready"
  /\ pstate' = "ready"
  /\ P'.map = P.map
  /\ P'.cache = P.cache

(* one tile fill for index i from the current state changes only the       *)
(* region and the presence byte of i, and nothing when i is present        *)
FillTouchesOnly(i) ==
  LET r == peach_gen(P, heap, bt, i)
  IN  /\ \A j \in Tiles \ {i} :
           /\ Presence(r.heap, j) = Presence(heap, j)
           /\ Region(r.heap, j) = Region(heap, j)
      /\ Presence(r.heap, i) = 1
      /\ Presence(heap, i) = 1 => r.heap = heap

(* C10: between peach_solve and peach_free a presence byte only changes    *)
(* from 0 to 1, the region of a tile that is present is never modified,    *)
(* the region of a tile is modified only when its presence byte is set,    *)
(* and each tile fill of a peach_generate call changes only its own tile.  *)
C10_AppendOnly ==
  [][KeepsMap
       => /\ \A i \in Tiles :
               /\ Presence(heap, i) = 1 => Presence(heap', i) = 1
               /\ Presence(heap', i) \in {Presence(heap, i), 1}
               /\ Presence(heap', i) = Presence(heap, i)
                    => Region(heap', i) = Region(heap, i)
          /\ call'.op = "peach_generate"
               => \A i \in {call'.path[k] : k \in 1..Len(call'.path)} :
                    FillTouchesOnly(i)]_vars

(* a second peach_generate call came twice past a tile: it found it        *)
(* present at least once                                                   *)
C10_Witness ==
  /\ pstate = "ready"
  /\ ngen = 2
  /\ call.op = "peach_generate"
  /\ \E a, b \in 1..Len(call.path) : a < b /\ call.path[a] = call.path[b]
  /\ \E i \in Tiles : Presence(heap, i) = 1

(* a call made by one worker leaves what every other worker's context      *)
(* sees of its map and presence buffer as it was                           *)
OthersKeepView ==
  \A v \in Workers :
    (call'.w # v /\ W[v].P.map # NULL /\ W[v].P.cache # NULL)
      => /\ Mem(heap', W[v].P.map) = Mem(heap, W[v].P.map)
         /\ Mem(heap', W[v].P.cache) = Mem(heap, W[v].P.cache)

(* C11, as stated: in the heap build and in the STATIC_PEACH_MAP build, no *)
(* peach_solve, peach_generate or peach_free of one worker changes the map *)
(* or the presence bytes another worker's context sees.                    *)
C11_OwnsMap == [][OthersKeepView]_vars

(* C11, amended: in the heap build no call of one worker changes the map   *)
(* or the presence bytes another worker's context sees; in the             *)
(* STATIC_PEACH_MAP build the contexts of all workers designate the same   *)
(* two static arrays.                                                      *)
C11_OwnsMapHeapBuild ==
  /\ [][build = "heap" => OthersKeepView]_vars
  /\ [](build = "static" =>
          \A v \in Workers :
            W[v].st = "ready" => /\ W[v].P.map = Map_peach
                                 /\ W[v].P.cache = Cache_peach)

(* C11 witness: in the heap build a worker has filled a tile of its map    *)
(* while the other worker holds a map with a tile of its own               *)
C11_Witness ==
  /\ build = "heap"
  /\ call.op = "peach_generate"
  /\ \A v \in Workers :
       /\ W[v].st = "ready"
       /\ \E i \in Tiles : Mem(heap, W[v].P.cache)[i + 1] = 1

(* C12: in the thread-safe build, whatever the interleaving of the threads *)
(* calling trigg_rand and trigg_srand, the shared seed is the seed last    *)
(* set by trigg_srand advanced by one step of the generator for each       *)
(* trigg_rand update made since (no update is lost), and a call that made  *)
(* the k-th update returns the k-th output of the sequence: what the call  *)
(* of trigg_rand as one atomic step returns on the seed k - 1 steps on.    *)
C12_RandAtomic ==
  /\ Trigg_seed = trigg_rand_iter(hist.base, hist.n)
  /\ \A t \in Threads :
       (thr[t].op = "trigg_rand" /\ thr[t].r # -1)
         => /\ thr[t].k \in 1..(NThreads * MaxCalls)
            /\ thr[t].r = trigg_rand(trigg_rand_iter(thr[t].base, thr[t].k - 1)).r

(* C12 witness: two threads have returned from trigg_rand, one with the    *)
(* first and one with the second output since the seed was set by          *)
(* trigg_srand                                                             *)
C12_Witness ==
  /\ hist.base \in Seeds
  /\ \E t, u \in Threads :
       /\ t # u
       /\ thr[t].pc = "idle" /\ thr[t].op = "trigg_rand" /\ thr[t].k = 1
       /\ thr[u].pc = "idle" /\ thr[u].op = "trigg_rand" /\ thr[u].k = 2
       /\ thr[t].base = hist.base /\ thr[u].base = hist.base

C14_InputUnchanged ==
  call.op = "peach_nighthash" => /\ ret.in = arg.in
                                 /\ Len(ret.out) = HASHLEN

(* C14 witness: the call has run on a buffer with a lane that is NaN and   *)
(* bytes after the last whole lane, and on a buffer of peach_next          *)
C14_Witness ==
  /\ call.op = "peach_nighthash"
  /\ \/ Len(arg.in) = 7 /\ arg.in[1] = 255
     \/ Len(arg.in) = PEACH_NEXT

(* the words of the haiku np: the slots before its first zero token *)
HaikuWords(np) == {i \in 0..(MAXH - 1) : \A k \in 0..i : np[k + 1] # 0}

(* the offset in the expanded haiku at which the token of slot i starts:   *)
(* after the tokens before it, each followed by a space unless it ends     *)
(* with a newline                                                          *)
RECURSIVE ExpandOffset(_, _)
ExpandOffset(np, i) ==
  IF i = 0 THEN 0
  ELSE LET t == Tok(np[i])
       IN  ExpandOffset(np, i - 1) + Len(t) + (IF t[Len(t)] = 10 THEN 0 ELSE 1)

(* C15, as stated: the expanded haiku is the teletype reading of the       *)
(* tokens, a leading backspace having erased the byte before it, so that   *)
(* the HAIKUSIZE bytes that are hashed hold no byte 0x08.                  *)
C15_NoBackspace ==
  call.op = "trigg_expand" => \A k \in 1..HAIKUSIZE : ret[k] # 8

(* C15, amended: trigg_expand copies the bytes of each token as they are.  *)
(* Every word's token stands in the expanded haiku whole, a leading        *)
(* backspace 0x08 included, after the tokens before it and their spaces;   *)
(* nothing is erased.                                                      *)
C15_TokensVerbatim ==
  call.op = "trigg_expand" =>
    /\ Len(ret) = HAIKUSIZE
    /\ \A i \in HaikuWords(arg) :
         Bytes(ret, ExpandOffset(arg, i), Len(Tok(arg[i + 1]))) = Tok(arg[i + 1])

(* C15 witness: an expanded haiku with a token that starts with a          *)
(* backspace, which follows the space after the word before it             *)
C15_Witness ==
  /\ call.op = "trigg_expand"
  /\ \E i \in HaikuWords(arg) :
       /\ i > 0
       /\ Tok(arg[i + 1])[1] = 8
       /\ ret[ExpandOffset(arg, i) + 1] = 8
       /\ ret[ExpandOffset(arg, i)] = 32

(* every frame starts with a slot that is not zero, has only zero slots    *)
(* after its first zero slot, names a word in each literal slot, and has   *)
(* in each other slot a feature that some word of the dictionary has       *)
FramesFillable ==
  \A f \in 1..NFRAMES :
    /\ Frame[f][1] # 0
    /\ \A j \in 1..MAXH :
         IF Frame[f][j] = 0 THEN \A k \in j..MAXH : Frame[f][k] = 0
         ELSE IF BitAnd(Frame[f][j], F_XLIT) # 0 THEN BitAnd(Frame[f][j], 255) # 0
         ELSE \E w \in 1..(MAXDICT - 1) : BitAnd(Fe(w), Frame[f][j]) # 0

(* C17: whatever the state of the generator, trigg_gen writes MAXH bytes   *)
(* that follow the frame it drew: 0 in a zero slot, the slot's low byte in *)
(* a literal slot, elsewhere a word with a feature of the slot.  So the    *)
(* haiku has a word, holds only zeros after its first zero, and            *)
(* trigg_syntax accepts it.                                                *)
C17_GenFollowsFrame ==
  call.op = "trigg_gen" =>
    /\ Len(arg) = MAXH
    /\ trigg_gen_can_frame(Frame[(trigg_rand(call.seed).r % NFRAMES) + 1], arg)
    /\ \E j \in 1..MAXH : arg[j] # 0
    /\ \A j \in 1..MAXH : arg[j] = 0 => \A k \in j..MAXH : arg[k] = 0
    /\ trigg_syntax(arg) = 1
    /\ FramesFillable

(* C17 witness: trigg_gen has written a haiku with a literal slot, a drawn *)
(* word and zeros after its last word                                      *)
C17_Witness ==
  /\ call.op = "trigg_gen"
  /\ arg[MAXH] = 0
  /\ \E j \in 1..MAXH :
       LET f == Frame[(trigg_rand(call.seed).r % NFRAMES) + 1][j]
       IN  f # 0 /\ BitAnd(f, F_XLIT) = 0 /\ arg[j] # 0
  /\ \E j \in 1..MAXH :
       BitAnd(Frame[(trigg_rand(call.seed).r % NFRAMES) + 1][j], F_XLIT) # 0

(* the two haiku of the trailer under check pass trigg_syntax *)
ArgSyntax ==
  /\ trigg_syntax(Bytes(arg.bt, OFF_NONCE, 16)) = 1
  /\ trigg_syntax(Bytes(arg.bt, OFF_NONCE + 16, 16)) = 1

OnMap(w) ==
  \A k \in DOMAIN w.path :
    /\ w.path[k] \in 0..(PEACH_MAP - 1)
    /\ w.path[k] * PEACH_TILE + (PEACH_TILE - 1) < PEACH_SIZE
    /\ PEACH_SIZE - 1 <= 2147483647

(* C18: every index of a walk of peach_generate or peach_checkhash, the    *)
(* start and the index after each of the PEACH_JUMP jumps, is a tile of    *)
(* the map, so cache[index] and the PEACH_TILE bytes of map from           *)
(* index * PEACH_TILE lie in the presence buffer and in the map.           *)
C18_WalkOnMap ==
  /\ call.op = "peach_generate"
       => /\ Len(call.path) = PEACH_JUMP + 1
          /\ OnMap(call)
          /\ P.map # NULL => /\ Len(Mem(heap, P.cache)) = PEACH_MAP
                             /\ Len(Mem(heap, P.map)) = PEACH_SIZE
  /\ (call.op = "peach_checkhash" /\ call.res.hashed)
       => /\ Len(call.res.path) = PEACH_JUMP + 1
          /\ OnMap(call.res)

(* C18 witness: a walk of peach_generate on a live map has come to tiles   *)
(* of the lower and of the upper half of the map                           *)
C18_Witness ==
  /\ call.op = "peach_generate"
  /\ P.map # NULL
  /\ \E k \in DOMAIN call.path : call.path[k] >= PEACH_MAP \div 2
  /\ \E k \in DOMAIN call.path : call.path[k] < PEACH_MAP \div 2

(* the walks v and c visit the same indices, find the same tiles and end   *)
(* in the same hash                                                        *)
SameWalk(v, c) ==
  /\ v.path = c.path
  /\ v.tiles = c.tiles
  /\ v.hash = c.hash

(* C19: whatever peach_generate calls came before, the tiles a walk of     *)
(* peach_generate takes from its map, filled now or found present, are the *)
(* tiles a context with no map generates for the same phash and indices;   *)
(* the walk visits the indices and ends in the hash of the same walk made  *)
(* with no map.                                                            *)
C19_CacheIsVerifier ==
  call.op = "peach_generate" =>
    /\ \A k \in DOMAIN call.path :
         call.tiles[k] = peach_gen_tile(Bytes(bt, OFF_PHASH, HASHLEN),
                                        call.path[k], Zeros(PEACH_TILE))
    /\ SameWalk(peach_hash([PeachZero EXCEPT !.bt = BtPtr], <<>>, bt,
                           call.nonce, call.bt_hash, 0),
                call)

(* C19 witness: the second peach_generate call on a live map, whose walk   *)
(* comes to a tile more than once                                          *)
C19_Witness ==
  /\ call.op = "peach_generate"
  /\ ngen = 2
  /\ P.map # NULL
  /\ \E j, k \in DOMAIN call.path : j < k /\ call.path[j] = call.path[k]

(* the walk w for the nonce: PEACH_JUMP + 1 tiles, from the start given by *)
(* bt_hash on; each next index is peach_next of the index and tile before  *)
(* it and the nonce; the hash is sha256 of bt_hash and the last tile       *)
InSequence(w, nonce) ==
  /\ Len(w.path) = PEACH_JUMP + 1
  /\ Len(w.tiles) = PEACH_JUMP + 1
  /\ w.path[1] = ToInt(And32(peach_mario(w.bt_hash,
                                         [i |-> 1, mario |-> U32(0, w.bt_hash[1])]),
                             ToU32(PEACH_MAP - 1)))
  /\ \A k \in 1..PEACH_JUMP :
       w.path[k + 1] = peach_next(w.path[k], w.tiles[k], nonce)
  /\ w.hash = sha256(w.bt_hash \o w.tiles[PEACH_JUMP + 1])

(* C20: a walk of peach_generate, and of a peach_checkhash that passes the *)
(* syntax checks, takes PEACH_JUMP + 1 tiles in sequence: the tile at      *)
(* mario's start, then after each jump the tile at the index peach_next    *)
(* gives for the index and tile before it and the 32 bytes of the nonce;   *)
(* the final hash is of bt_hash and the last tile alone.                   *)
C20_WalkInSequence ==
  /\ call.op = "peach_generate" => InSequence(call, call.nonce)
  /\ (call.op = "peach_checkhash" /\ call.res.hashed)
       => InSequence(call.res, Bytes(bt, OFF_NONCE, 32))

(* C20 witness: a walk of peach_checkhash that passed the syntax checks    *)
(* and moved from its first tile to another and ended on a third           *)
C20_Witness ==
  /\ call.op = "peach_checkhash"
  /\ call.res.hashed
  /\ call.res.path[1] # call.res.path[2]
  /\ call.res.path[PEACH_JUMP + 1] # call.res.path[1]
  /\ call.res.tiles[PEACH_JUMP + 1] # call.res.tiles[1]

(* a step of the calls on the contexts: the solve calls leave the haiku    *)
(* they drew as the secondary haiku; the generate calls move the secondary *)
(* haiku to the primary haiku and draw the secondary haiku anew            *)
NonceAdvances ==
  /\ (call'.op = "peach_solve" /\ call'.ret = 0)
       => Bytes(P'.nonce, 16, 16) = trigg_gen(Trigg_seed).out
  /\ call'.op = "peach_generate"
       => /\ Bytes(P'.nonce, 0, 16) = Bytes(P.nonce, 16, 16)
          /\ Bytes(P'.nonce, 16, 16) = trigg_gen(Trigg_seed).out
  /\ call'.op = "trigg_solve"
       => T'.haiku2 = trigg_gen(Trigg_seed).out
  /\ call'.op = "trigg_generate"
       => /\ T'.haiku1 = T.haiku2
          /\ T'.haiku2 = trigg_gen(Trigg_seed).out

(* C21: in every sequence of calls on a context, each peach_generate and   *)
(* each trigg_generate makes the secondary haiku of the attempt before it  *)
(* its primary haiku and draws its secondary haiku anew; the first         *)
(* attempt's primary haiku is the haiku the solve call drew.               *)
C21_NonceChain == [][NonceAdvances]_vars

(* C21 witness: a second attempt of peach_generate has failed after a      *)
(* first that was emitted, and its primary haiku is the secondary haiku of *)
(* the nonce emitted                                                       *)
C21_Witness ==
  /\ call.op = "peach_generate"
  /\ call.ret = 0
  /\ ngen = 2
  /\ emit.ok
  /\ Bytes(P.nonce, 0, 16) = Bytes(emit.nonce, 16, 16)
  /\ Bytes(P.nonce, 16, 16) # Bytes(emit.nonce, 16, 16)

(* a generate call, whose out is the nonce field of the caller's trailer:  *)
(* returning 0 it leaves the trailer as it was; returning 1 it leaves in   *)
(* the nonce field, and nowhere else, the primary and the secondary haiku  *)
(* of the context, which are the ones its hash was computed from           *)
OutOnSuccess ==
  /\ call'.op = "peach_generate"
       => IF call'.ret = 0 THEN bt' = bt
          ELSE /\ bt' = Poke(bt, OFF_NONCE, P'.nonce)
               /\ call'.bt_hash = sha256(Bytes(bt, 0, 92) \o Bytes(bt', OFF_NONCE, 32))
  /\ call'.op = "trigg_generate"
       => IF call'.ret = 0 THEN bt' = bt
          ELSE /\ bt' = Poke(bt, OFF_NONCE, T'.haiku1 \o T'.haiku2)
               /\ T'.haiku = trigg_expand(Bytes(bt', OFF_NONCE, 16))
               /\ emit'.hash = sha256(trigg_chain(T'))

(* C22: peach_generate and trigg_generate write out only when they return  *)
(* 1.  A call that returns 0 changes no byte of out; a call that returns 1 *)
(* leaves in out the 32 bytes of the primary haiku followed by the         *)
(* secondary haiku of the attempt it hashed.                               *)
C22_OutOnSuccess == [][OutOnSuccess]_vars

(* C22 witness: peach_generate has returned 0 with the trailer holding the *)
(* nonce of an earlier attempt, which is not the nonce of this attempt     *)
C22_Witness ==
  /\ call.op = "peach_generate"
  /\ call.ret = 0
  /\ emit.ok
  /\ Bytes(bt, OFF_NONCE, 32) = emit.nonce
  /\ call.nonce # emit.nonce

(* C23: for every length len, transformation 0 of peach_dmemtx leaves each *)
(* of the len bytes XORed with 0x81 and transformation 2 leaves each of    *)
(* them complemented, as a loop over the bytes 0..len-1 would.             *)
C23_EveryByte ==
  call.op = "peach_dmemtx" =>
    /\ Len(ret) = Len(arg.in)
    /\ \A z \in 1..Len(arg.in) :
         ret[z] = BitXor(arg.in[z], IF arg.t = 0 THEN 129 ELSE 255)

(* C24: the tile peach_gen generates depends on the previous block hash    *)
(* and the index alone: two invocations with the same phash and index      *)
(* leave the same PEACH_TILE bytes, in the map slot and in the scratch     *)
(* tile alike, whatever the destination held before and whatever the       *)
(* nonce, the other trailer fields and the PRNG seed are; every byte of    *)
(* every row is written.                                                   *)
C24_TileOfPhashIndex ==
  (call.op = "peach_gen"
     /\ Bytes(arg.a, OFF_PHASH, HASHLEN) = Bytes(arg.b, OFF_PHASH, HASHLEN))
    => /\ Len(ret.a) = PEACH_TILE
       /\ ret.a = ret.b
       /\ ret.slot = ret.a
       /\ ret.tile = ret.b
       /\ ret.a = peach_gen_tile(Bytes(arg.a, OFF_PHASH, HASHLEN), arg.index,
                                 Zeros(PEACH_TILE))

(* two invocations that agree on phash and index and on nothing else: the  *)
(* destinations differed in every byte and the trailers in nonce and       *)
(* difficulty                                                              *)
C24_Witness ==
  /\ call.op = "peach_gen"
  /\ arg.a # arg.b
  /\ Bytes(arg.a, OFF_PHASH, HASHLEN) = Bytes(arg.b, OFF_PHASH, HASHLEN)
  /\ arg.g = 170
  /\ \A i \in 1..PEACH_TILE : arg.dirt[i] # 170 /\ arg.dirt[i] # ret.b[i]
  /\ Trigg_seed # U32(0, 1)
  /\ ret.a = ret.b

(* C25: trigg_checkhash takes no account of the bytes of the primary haiku *)
(* after its first zero byte: on two trailers that differ in such bytes    *)
(* alone it returns the same value and leaves the same hash in out.        *)
C25_TailIgnored ==
  (call.op = "trigg_checkhash" /\ Len(ret) = 2)
    => /\ ret[1].ret = ret[2].ret
       /\ ret[1].hashed = ret[2].hashed
       /\ ret[1].hash = ret[2].hash
       /\ ret[1].out = ret[2].out

(* a haiku that passes and one with other bytes after the terminator that  *)
(* passes with the same hash                                               *)
C25_Witness ==
  /\ call.op = "trigg_checkhash"
  /\ Len(ret) = 2
  /\ HaikuTail(arg) # arg.np
  /\ HaikuEnd(arg.np, 0) < arg.pos
  /\ ret[1].ret = 1
  /\ ret[2].ret = 1
  /\ ret[2].out.mem = ret[1].hash

(* the low bits of the generator's state that decide the index drawn: the  *)
(* index is bits 16.. of the state, below MAXDICT                          *)
RandLow(s) == (Hi(s) % MAXDICT) * 65536 + Lo(s)

(* a * b modulo 65536 * MAXDICT, by halves of 12 bits *)
RandMul(a, b) ==
  (((((a \div 4096) * (b % 4096) + (a % 4096) * (b \div 4096)) % 4096) * 4096)
     + (a % 4096) * (b % 4096)) % (65536 * MAXDICT)

(* the step of the generator on the low bits, as x -> a * x + c *)
RandAffine ==
  [a |-> (RandLow(trigg_rand_step(U32(0, 1))) + 65536 * MAXDICT
            - RandLow(trigg_rand_step(U32(0, 0)))) % (65536 * MAXDICT),
   c |-> RandLow(trigg_rand_step(U32(0, 0)))]

(* 2^k steps of the map m *)
RECURSIVE RandSteps(_, _)
RandSteps(m, k) ==
  IF k = 0 THEN m
  ELSE RandSteps([a |-> RandMul(m.a, m.a),
                  c |-> (RandMul(m.a, m.c) + m.c) % (65536 * MAXDICT)], k - 1)

(* the low bits of the state run through one cycle of all their values:    *)
(* half that many steps move every value to the one half the cycle away    *)
RandFullCycle ==
  RandSteps(RandAffine, Log2(MAXDICT) + 15) = [a |-> 1, c |-> 32768 * MAXDICT]

(* every slot of every frame that is neither zero nor a literal has a word *)
(* of the dictionary with a feature of the slot                            *)
GenSlotsFillable ==
  \A f \in 1..NFRAMES : \A j \in 1..MAXH :
    (Frame[f][j] # 0 /\ BitAnd(Frame[f][j], F_XLIT) = 0)
      => \E w \in 0..(MAXDICT - 1) : BitAnd(Fe(w), Frame[f][j]) # 0

(* C26: every call of trigg_gen returns, whatever the seed: each slot that *)
(* is drawn for has a word that suits it, the index drawn runs through     *)
(* every value as the generator steps (its low bits follow x -> a*x + c    *)
(* through one cycle of all their values), and the call that was started   *)
(* reaches its return.                                                     *)
C26_GenTerminates ==
  /\ [](/\ GenSlotsFillable
        /\ RandFullCycle
        /\ RandLow(trigg_rand_step(Trigg_seed))
             = (RandMul(RandAffine.a, RandLow(Trigg_seed)) + RandAffine.c)
                 % (65536 * MAXDICT))
  /\ (call.op \in {"none", "trigg_gen"}) ~> (call.op = "trigg_gen_done")

(* a call that returned after drawing again for a slot: more numbers were  *)
(* drawn than the frame has slots to draw for                              *)
C26_Witness ==
  /\ call.op = "trigg_gen_done"
  /\ Len(arg) = MAXH
  /\ trigg_gen_can_frame(Frame[call.f], arg)
  /\ \E s \in GenSeeds :
       /\ Trigg_seed = trigg_gen(s).seed
       /\ arg = trigg_gen(s).out
       /\ Trigg_seed #
            trigg_rand_iter(s, 1 + Cardinality(
              {k \in 1..MAXH : /\ Frame[call.f][k] # 0
                               /\ BitAnd(Frame[call.f][k], F_XLIT) = 0}))

=============================================================================
